---- MODULE Spec2Model ----
(***************************************************************************)
(* Notification delivery pipeline of keepsafe's backend:                   *)
(* backend/services/notification_service.py (NotificationService).         *)
(*                                                                         *)
(* The event loop is cooperative: a coroutine runs without interruption    *)
(* until it suspends.  The suspension points of the pipeline are the wait  *)
(* for a semaphore permit, the HTTP request to the push gateway and the    *)
(* backoff sleep; the queue store calls (read, delete, send) are blocking  *)
(* calls made without suspension.  One action of the model is one such     *)
(* uninterrupted segment of one coroutine.                                 *)
(***************************************************************************)
EXTENDS Integers, Sequences, FiniteSets, TLC

\* ------------------------------------------------------------------ bounds
\* Number of messages waiting in the main queue in the initial state; the
\* concurrency and the batch size of the service range over 1..MaxMsgs.
MaxMsgs == 2

\* ------------------------------------------------------- program constants
DlqLimit == 3
DefaultMaxRetries == 3

MainQueue == "notifications_q"
DeadLetterQueue == "notifications_dlq"
QueueNames == {MainQueue, DeadLetterQueue}

\* The scheduled ticks (and manual calls) of process_queue.
Runs == {"run1", "run2"}

\* ------------------------------------------------------------ JSON payloads
Tokens == <<"tok1", "tok2">>

\* dict.get(key, default)
Get(obj, key, default) == IF key \in DOMAIN obj THEN obj[key] ELSE default

\* A NotificationJob as enqueue_notification builds it.
Job(fc) ==
  [title |-> "title", body |-> "body", recipients |-> Tokens,
   priority |-> "high", failure_count |-> fc, metadata |-> "metadata",
   data |-> "data", created_at |-> "created_at"]

\* A job written by another producer, without a failure_count key.
JobNoCount ==
  [title |-> "title", body |-> "body", recipients |-> Tokens,
   priority |-> "high", metadata |-> "metadata",
   data |-> "data", created_at |-> "created_at"]

\* A job that fails the shape validation of _process_message.
InvalidJob == [Job(0) EXCEPT !.recipients = <<>>]

\* json.dumps of a dict: a JSON text holding the object.
json_dumps(obj) == [enc |-> "text", kind |-> "object", obj |-> obj]
\* A payload the queue hands back as an already decoded dict.
AsDict(obj) == [enc |-> "dict", kind |-> "object", obj |-> obj]
\* A text that is no JSON, and the JSON text "null".
GarbageText == [enc |-> "text", kind |-> "garbage"]
NullText == [enc |-> "text", kind |-> "null"]

\* json.dumps of a list: a JSON text holding the array.
json_dumps_list(l) == [enc |-> "text", kind |-> "array", obj |-> l]

\* json.loads of a text: raises on garbage, gives None for "null".
json_loads(s) ==
  CASE s.kind = "garbage" -> [raised |-> TRUE]
    [] s.kind = "null"    -> [raised |-> FALSE, isdict |-> FALSE]
    [] s.kind = "array"   -> [raised |-> FALSE, isdict |-> FALSE, obj |-> s.obj]
    [] OTHER              -> [raised |-> FALSE, isdict |-> TRUE, obj |-> s.obj]

\* _process_message, lines 208-212: decode the payload unless it is a dict.
DecodeMessage(payload) ==
  IF payload.enc = "text"
  THEN json_loads(payload)
  ELSE [raised |-> FALSE, isdict |-> TRUE, obj |-> payload.obj]

FailureCounts == 0 .. (DlqLimit + 1)

\* Every kind of payload a read can hand to _process_message.
Payloads ==
  {json_dumps(Job(f)) : f \in FailureCounts}
    \cup {json_dumps(JobNoCount), AsDict(Job(0)), json_dumps(InvalidJob),
          GarbageText, NullText}

\* The payloads of the batches of several messages: a job as
\* enqueue_notification writes it, a job without recipients, and a text
\* that is no JSON.
BatchPayloads == {json_dumps(Job(0)), json_dumps(InvalidJob), GarbageText}

\* Python truthiness of the three required fields (line 226).
Truthy(obj, key) ==
  /\ key \in DOMAIN obj
  /\ IF key = "recipients" THEN Len(obj[key]) > 0 ELSE obj[key] # ""

\* Variant: the recipients are not looked at.
InvalidFormatNoRecipients(obj) ==
  ~Truthy(obj, "title") \/ ~Truthy(obj, "body")

InvalidFormat(obj) ==
  ~Truthy(obj, "title") \/ ~Truthy(obj, "body") \/ ~Truthy(obj, "recipients")


\* ------------------------------------------------------------ push gateway
\* One entry of the ticket array of a gateway response: an object with a
\* status ("none": no status key), or something that is no object.
Tickets ==
  {[isdict |-> TRUE, status |-> st] : st \in {"ok", "error", "none"}}
    \cup {[isdict |-> FALSE]}

TicketSeqs ==
  UNION {[1..n -> Tickets] : n \in 0..Len(Tokens)}

\* Answers of the Expo REST API to one POST: a 2xx answer with a body, an
\* error status, or no answer at all (network exception, timeout).
\*   "data":   {"data": [tickets]}      "list":    [tickets]
\*   "object": an object without "data" (taken as a single ticket)
\*   "scalar": a JSON value that is neither object nor array
\*   "nodata": {"data": null}           "invalid": a body that is no JSON
RestResponses ==
  {[via |-> "rest", http |-> "200", json |-> j, tickets |-> ts] :
      j \in {"data", "list"}, ts \in TicketSeqs}
    \cup {[via |-> "rest", http |-> "200", json |-> "object",
           tickets |-> <<[isdict |-> TRUE, status |-> st]>>] :
             st \in {"ok", "error", "none"}}
    \cup {[via |-> "rest", http |-> "200", json |-> "scalar",
           tickets |-> <<[isdict |-> FALSE]>>]}
    \cup {[via |-> "rest", http |-> "200", json |-> j, tickets |-> <<>>] :
             j \in {"nodata", "invalid"}}
    \cup {[via |-> "rest", http |-> h, json |-> "none", tickets |-> <<>>] :
             h \in {"429", "400", "500", "network_error"}}

\* Outcomes of expo_client.publish + validate_response: success, a
\* PushServerError whose text names the rate limit, another PushServerError,
\* a DeviceNotRegisteredError, any other exception.
SdkResponses ==
  {[via |-> "sdk", sdk |-> o] :
      o \in {"ok", "server_429", "server_error", "not_registered", "exception"}}

NoResponse == [via |-> "none"]

\* The answers drawn for the requests of process_queue, one of each class:
\* every ticket ok, one ticket in error, rate limit, server error, no answer.
BatchResponses ==
  {r \in RestResponses :
     \/ r.http \in {"429", "500", "network_error"}
     \/ /\ r.json = "data"
        /\ Len(r.tickets) = Len(Tokens)
        /\ r.tickets[1] = [isdict |-> TRUE, status |-> "ok"]
        /\ r.tickets[2] \in {[isdict |-> TRUE, status |-> "ok"],
                             [isdict |-> TRUE, status |-> "error"]}}

\* The answers a request of task t may get.
AnswersFor(t) == IF t.caller = "callA" THEN RestResponses ELSE BatchResponses
SdkAnswersFor(t) == IF t.use_rest_api THEN {NoResponse} ELSE SdkResponses

\* Variant: one ticket that is ok is enough.
any_success(tickets) ==
  \E n \in 1..Len(tickets) :
    tickets[n].isdict /\ tickets[n].status = "ok"

\* Lines 396-400: all(ticket.get("status") == "ok" for ticket in tickets
\* if isinstance(ticket, dict)).
all_success(tickets) ==
  \A n \in 1..Len(tickets) :
    tickets[n].isdict => tickets[n].status = "ok"

\* Variant: one retry too many.
ShouldRetryOnceMore(retry_count, max_retries, is_rate_limit) ==
  retry_count <= max_retries /\ is_rate_limit

\* Variant: every error is retried, rate limit or not.
ShouldRetryAnyError(retry_count, max_retries, is_rate_limit) ==
  retry_count < max_retries

\* Lines 427 and 504: retry_count < max_retries and is_rate_limit.
ShouldRetry(retry_count, max_retries, is_rate_limit) ==
  retry_count < max_retries /\ is_rate_limit

\* Variant: without the `except Exception` of line 445, a network exception
\* and a body that cannot be read leave the function.
RestOutcomeUncaught(resp, retry_count, max_retries) ==
  CASE resp.http = "network_error" -> "raised"
    [] resp.http \in {"429", "400", "500"} ->
         IF retry_count < max_retries /\ resp.http = "429"
         THEN "retry" ELSE "false"
    [] resp.json \in {"invalid", "nodata"} -> "raised"
    [] OTHER -> IF \A n \in 1..Len(resp.tickets) :
                     resp.tickets[n].isdict => resp.tickets[n].status = "ok"
                THEN "true" ELSE "false"

\* What one answer makes of an attempt of _send_notification_via_rest_api:
\* "true" / "false" (the value returned), "retry" (sleep, then recurse) or
\* "raised" (an exception leaves the function).
RestOutcome(resp, retry_count, max_retries) ==
  CASE resp.http = "network_error" -> "false"
    [] resp.http \in {"429", "400", "500"} ->
         IF ShouldRetry(retry_count, max_retries, resp.http = "429")
         THEN "retry" ELSE "false"
    [] resp.json \in {"invalid", "nodata"} -> "false"
    [] OTHER -> IF all_success(resp.tickets) THEN "true" ELSE "false"

\* The same for _send_notification_via_sdk.
SdkOutcome(resp, retry_count, max_retries) ==
  CASE resp.sdk = "ok" -> "true"
    [] resp.sdk \in {"server_429", "server_error", "not_registered"} ->
         IF ShouldRetry(retry_count, max_retries, resp.sdk = "server_429")
         THEN "retry" ELSE "false"
    [] OTHER -> "false"

\* --------------------------------------------------------------- the state
VARIABLES
  store,        \* queue store: queue name -> set of [id, payload]
  nextId,       \* queue store: queue name -> next message id
  leased,       \* queue store: queue name -> ids hidden by a read
  queue_name,   \* NotificationService.queue_name
  concurrency,  \* NotificationService.concurrency
  batch_size,   \* NotificationService.batch_size
  sem,          \* NotificationService.semaphore: free permits
  run,          \* the calls of process_queue
  tasks,        \* the _process_message / _send_notification coroutines
  enq,          \* the calls of enqueue_notification made so far
  is_running,   \* NotificationScheduler.is_running
  scheduler,    \* NotificationScheduler.scheduler (the AsyncIOScheduler)
  hist,         \* what the scheduler object has been asked to do so far
  posthog_client, \* NotificationService.posthog_client: the analytics sink
  redis_client, \* CacheService.redis_client: a client, or None
  redis,        \* the Redis server: cache key -> entry
  supabase,     \* the Supabase tables read by the services
  svc           \* the last call of CacheService or of a service above it

vars ==
  <<store, nextId, leased, queue_name, concurrency, batch_size, sem, run, tasks,
    enq, is_running, scheduler, hist, posthog_client,
    redis_client, redis, supabase, svc>>

\* The fields of the service that no step of the pipeline assigns, and the
\* state of the producer side and of the scheduler.
settings == <<queue_name, concurrency, batch_size, posthog_client>>
outer == <<redis_client, redis, supabase, svc>>
around == <<enq, is_running, scheduler, hist, outer>>

\* Variant: the counters do not start from zero.
StatsFromOne ==
  [processed |-> 1, succeeded |-> 0, failed |-> 0, moved_to_dlq |-> 0,
   discarded |-> 0]

\* Lines 146-152.
ZeroStats ==
  [processed |-> 0, succeeded |-> 0, failed |-> 0, moved_to_dlq |-> 0,
   discarded |-> 0]

Bump(stats, key) == [stats EXCEPT ![key] = @ + 1]

TaskIds == DOMAIN tasks
TasksOf(r) == {i \in TaskIds : tasks[i].caller = r}

\* A coroutine that has not run yet.
NewTask(caller, msg, retry_count, max_retries, use_rest_api) ==
  [caller |-> caller, msg_id |-> msg.id, message |-> msg.payload,
   pc |-> "new", retry0 |-> retry_count, retry |-> retry_count,
   max_retries |-> max_retries, use_rest_api |-> use_rest_api,
   requests |-> 0, sleeps |-> 0, sleep_calls |-> <<>>, result |-> "none",
   outcome |-> "none", resp |-> NoResponse, acquires |-> 0, releases |-> 0,
   calls |-> <<>>]

\* ------------------------------------------------------------- queue store
\* pgmq_public.delete: idempotent removal by id.
QDelete(st, q, id) == [st EXCEPT ![q] = {m \in @ : m.id # id}]
\* pgmq_public.send.
QSend(st, ids, q, payload) ==
  [st EXCEPT ![q] = @ \cup {[id |-> ids[q], payload |-> payload]}]

Visible(q) == {m \in store[q] : m.id \notin leased[q]}

\* The n oldest of a set of messages, oldest first.
RECURSIVE Oldest(_, _)
Oldest(msgs, n) ==
  IF n = 0 \/ msgs = {} THEN <<>>
  ELSE LET m == CHOOSE x \in msgs : \A y \in msgs : x.id <= y.id
       IN  <<m>> \o Oldest(msgs \ {m}, n - 1)


\* ------------------------------------------------------- observability sink
\* posthog_client: None when no API key is set (line 40), a client whose
\* calls work, or a client whose calls raise.
PosthogClients == {"absent", "ok", "raises"}

\* Variant: an exception of the client leaves the helper.
SinkHelperUncaught(client) ==
  IF client = "raises" THEN "raised" ELSE "returned"

\* _capture_notification_enqueued_event, _capture_notification_sent_event
\* and _log_error_to_posthog (lines 694-836), as their caller sees them:
\* they return at once without a client (lines 703, 758, 820), and with one
\* they catch and log whatever its calls raise (lines 746, 803, 835).
SinkHelper(client) ==
  CASE client = "absent" -> "returned"
    [] client = "ok"     -> "returned"
    [] OTHER             -> "returned"

\* The outcomes of _process_message on whose path a helper of the sink is
\* called: line 250 after a delivery, lines 589 after a discard, lines 268,
\* 569 and 602 in the exception handlers.
Reported == {"succeeded", "discarded", "lost", "error"}

\* The effect eff of _process_message with its call of the sink: would the
\* helper raise, the handler of line 266 would call it again (line 268)
\* and the exception would leave the coroutine before line 276 counts the
\* message as failed.
WithSink(eff, client) ==
  IF eff.outcome \notin Reported \/ SinkHelper(client) = "returned"
  THEN eff
  ELSE [eff EXCEPT !.outcome = "sink_raised",
                   !.stats = IF eff.outcome = "succeeded" THEN @
                             ELSE [@ EXCEPT !.failed = @ - 1]]

\* How _process_message ends: by returning, or by an exception.
EndOf(outcome) == IF outcome = "sink_raised" THEN "raised" ELSE "done"

\* How process_queue ends (lines 186-193): the handler reports the
\* exception of the read or of the batch to the sink, then the stats are
\* returned.
ProcessQueueEnds(raised, client) ==
  IF raised /\ SinkHelper(client) # "returned" THEN "raised" ELSE "returned"

\* ----------------------------------------------------------- _handle_failure
\* A call of the queue store made for a message: pgmq_public.delete on the
\* queue self.queue_name names (line 627), pgmq_public.send on dlq_name
\* (lines 553-559).
QueueCall(op, queue) == [op |-> op, queue |-> queue]

\* Variant: the message is counted as moved before the DLQ write is made.
AfterLostWriteCounted(stats) == Bump(Bump(stats, "moved_to_dlq"), "failed")

\* Lines 561 and 611, when the DLQ write raised: line 561 is skipped, the
\* handler of line 567 logs, line 611 counts the message as failed.
AfterLostWrite(stats) == Bump(stats, "failed")

\* Variant: the count is carried over without the increment.
NewFailureCountSame(failure_count) == failure_count

\* Line 542: new_failure_count = failure_count + 1.
NewFailureCount(failure_count) == failure_count + 1

\* Line 543: message_data["failure_count"] = new_failure_count.
SetFailureCount(obj, n) ==
  [k \in DOMAIN obj \cup {"failure_count"} |->
     IF k = "failure_count" THEN n ELSE obj[k]]

\* Variant: the comparison with the limit is strict.
EscalateBelowLimit(new_failure_count) == new_failure_count < DlqLimit

\* Variant: the job is moved to the DLQ one failure beyond the limit.
EscalateOnceMore(new_failure_count) == new_failure_count <= DlqLimit + 1

\* Line 546: new_failure_count <= self.dlq_limit.
EscalateToDlq(new_failure_count) == new_failure_count <= DlqLimit

\* _handle_failure(msg_id, message_data, failure_count, stats) on the queue
\* store st; delOk / dlqOk tell whether the delete and the DLQ send succeed.
\* Gives the new store, the new stats and what happened to the message.
HandleFailure(st, ids, stats, qname, msg_id, obj, failure_count, delOk, dlqOk) ==
  LET new  == NewFailureCount(failure_count)
      data == SetFailureCount(obj, new)
      del  == QueueCall("delete", qname)
      same == [store |-> st, sent |-> FALSE, calls |-> <<del>>]
  IN  IF EscalateToDlq(new)
      THEN IF ~delOk
           THEN same @@ [stats |-> Bump(stats, "failed"), outcome |-> "error"]
           ELSE IF dlqOk
           THEN [store   |-> QSend(QDelete(st, qname, msg_id), ids,
                                   DeadLetterQueue, json_dumps(data)),
                 sent    |-> TRUE,
                 stats   |-> Bump(Bump(stats, "moved_to_dlq"), "failed"),
                 outcome |-> "moved",
                 calls   |-> <<del, QueueCall("send", DeadLetterQueue)>>]
           ELSE [store   |-> QDelete(st, qname, msg_id),
                 sent    |-> FALSE,
                 stats   |-> AfterLostWrite(stats),
                 outcome |-> "lost",
                 calls   |-> <<del, QueueCall("send", DeadLetterQueue)>>]
      ELSE IF delOk
           THEN [store   |-> QDelete(st, qname, msg_id),
                 sent    |-> FALSE,
                 stats   |-> Bump(Bump(stats, "discarded"), "failed"),
                 outcome |-> "discarded",
                 calls   |-> <<del>>]
           ELSE same @@ [stats |-> Bump(stats, "failed"), outcome |-> "error"]

\* ---------------------------------------------------------- _process_message
\* Variant: a sent message is counted but left in the queue.
AfterSendKeepsMessage(st, ids, stats, qname, msg_id, obj, result, delOk, dlqOk) ==
  CASE result = "true" ->
         [store |-> st, sent |-> FALSE, calls |-> <<>>,
          stats |-> Bump(stats, "succeeded"), outcome |-> "succeeded"]
    [] result = "false" ->
         HandleFailure(st, ids, stats, qname, msg_id, obj,
                       Get(obj, "failure_count", 0), delOk, dlqOk)
    [] OTHER ->
         [store |-> st, sent |-> FALSE, calls |-> <<>>,
          stats |-> Bump(stats, "failed"), outcome |-> "error"]

\* Lines 243-276: what _process_message does once _send_notification has
\* returned `result` ("raised": an exception came out of it).
AfterSend(st, ids, stats, qname, msg_id, obj, result, delOk, dlqOk) ==
  CASE result = "true" ->
         IF delOk
         THEN [store |-> QDelete(st, qname, msg_id), sent |-> FALSE,
               calls |-> <<QueueCall("delete", qname)>>,
               stats |-> Bump(stats, "succeeded"), outcome |-> "succeeded"]
         ELSE [store |-> st, sent |-> FALSE,
               calls |-> <<QueueCall("delete", qname)>>,
               stats |-> Bump(stats, "failed"), outcome |-> "error"]
    [] result = "false" ->
         HandleFailure(st, ids, stats, qname, msg_id, obj,
                       Get(obj, "failure_count", 0), delOk, dlqOk)
    [] OTHER ->
         [store |-> st, sent |-> FALSE, calls |-> <<>>,
          stats |-> Bump(stats, "failed"), outcome |-> "error"]

\* Lines 226-231: a payload without title, body or recipients is deleted.
DiscardInvalid(st, stats, qname, msg_id, delOk) ==
  IF delOk
  THEN [store |-> QDelete(st, qname, msg_id),
        calls |-> <<QueueCall("delete", qname)>>,
        stats |-> Bump(stats, "failed"), outcome |-> "invalid"]
  ELSE [store |-> st, calls |-> <<QueueCall("delete", qname)>>,
        stats |-> Bump(stats, "failed"), outcome |-> "error"]

\* --------------------------------------------------------- _send_notification
\* Variant: the permit is handed out without looking at the counter.
PermitFreeUnchecked(free) == TRUE

\* Variant: the last permit is never handed out.
PermitFreeButLast(free) == free > 1

\* Line 305, `async with self.semaphore`: a permit is free.
PermitFree(free) == free > 0

\* Line 305, entering `async with self.semaphore`: task t has taken a
\* permit.
Acquired(t) == [t EXCEPT !.acquires = @ + 1]

\* Variant: the permit is not given back when the block is left.
ReleaseLost(free) == free

\* Leaving the block of line 305 (by a return or by an exception): the
\* permit goes back to the pool, of which `free` permits were free.
Release(free) == free + 1

\* Task t has left the block.
Released(t) == [t EXCEPT !.releases = @ + 1]

\* Delays are counted in units of 1/Scale second.
Scale == 2
MaxDelay == 60 * Scale

\* random.uniform(0, 1) is 0 + (1 - 0) * random.random(), a value of [0, 1).
Jitters == 0 .. (Scale - 1)

\* The delay of a coroutine of a batch does not reach anything else of the
\* batch: its jitter is kept at one value.
JittersFor(t) == IF t.caller \in Runs THEN {0} ELSE Jitters

Min(a, b) == IF a <= b THEN a ELSE b

\* Variant: the delay without the cap.
BackoffDelayUncapped(retry_count, jitter) == (2 ^ retry_count) * Scale + jitter

\* Lines 429 and 506: min(2 ** retry_count + random.uniform(0, 1), 60).
BackoffDelay(retry_count, jitter) ==
  Min((2 ^ retry_count) * Scale + jitter, MaxDelay)

\* Variant: the next request is made at once, without the backoff sleep.
SettleWithoutSleep(t, outcome, resp, jitter) ==
  IF outcome = "retry"
  THEN [t EXCEPT !.pc = "inflight", !.retry = @ + 1, !.requests = @ + 1]
  ELSE [t EXCEPT !.pc = "sent", !.result = outcome]

\* The attempt of task t is decided by answer resp: sleep before the next
\* attempt (asyncio.sleep(delay), lines 431 and 508), or leave the send with
\* a result (pc "sent": the function is about to return to its caller,
\* within the same step).
Settle(t, outcome, resp, jitter) ==
  LET seen == IF t.caller \in Runs THEN NoResponse ELSE resp
  IN  IF outcome = "retry"
      THEN [t EXCEPT !.pc = "sleeping", !.sleeps = @ + 1, !.resp = seen,
                     !.sleep_calls =
                        Append(@, [retry_count |-> t.retry,
                                   delay |-> BackoffDelay(t.retry, jitter),
                                   after |-> resp])]
      ELSE [t EXCEPT !.pc = "sent", !.result = outcome, !.resp = seen]

\* Task t, holding a permit, makes one gateway request.  The REST request
\* suspends the coroutine until the answer arrives; the SDK call blocks and
\* is answered (by sdkResp) within the step.
Attempt(t, sdkResp, jitter) ==
  IF t.use_rest_api
  THEN [t EXCEPT !.pc = "inflight", !.requests = @ + 1]
  ELSE Settle([t EXCEPT !.requests = @ + 1],
              SdkOutcome(sdkResp, t.retry, t.max_retries), sdkResp, jitter)

\* The step of task i goes on from t (after _send_notification took a
\* permit, leaving `free` permits; rn: the runs as the step has left them so
\* far): either the coroutine is suspended inside the send, keeping its
\* permit, or the send has returned: the permit is released and the caller
\* handles the result before anything else runs.
Continue(i, t, free, rn) ==
  IF t.pc # "sent"
  THEN /\ tasks' = [tasks EXCEPT ![i] = t]
       /\ sem' = free
       /\ run' = rn
       /\ UNCHANGED <<store, nextId, leased>>
  ELSE IF t.caller \notin Runs
  THEN /\ tasks' = [tasks EXCEPT ![i] = Released([t EXCEPT !.pc = "done"])]
       /\ sem' = Release(free)
       /\ run' = rn
       /\ UNCHANGED <<store, nextId, leased>>
  ELSE \E delOk \in BOOLEAN, dlqOk \in BOOLEAN :
       LET r   == t.caller
           obj == DecodeMessage(t.message).obj
           eff == WithSink(AfterSend(store, nextId, rn[r].stats, queue_name,
                                     t.msg_id, obj, t.result, delOk, dlqOk),
                           posthog_client)
       IN  /\ tasks' = [tasks EXCEPT ![i] =
                          Released([t EXCEPT !.pc = EndOf(eff.outcome),
                                             !.outcome = eff.outcome,
                                             !.calls = eff.calls])]
           /\ sem' = Release(free)
           /\ store' = eff.store
           /\ nextId' = IF eff.sent
                        THEN [nextId EXCEPT ![DeadLetterQueue] = @ + 1]
                        ELSE nextId
           /\ leased' = leased
           /\ run' = [rn EXCEPT ![r].stats = eff.stats]

\* _send_notification entered by task i (t: its record so far): take a
\* permit and make the first request, or wait for a permit.
EnterSend(i, t, rn) ==
  IF PermitFree(sem)
  THEN \E sdkResp \in SdkAnswersFor(t), jitter \in JittersFor(t) :
         Continue(i, Attempt(Acquired(t), sdkResp, jitter), sem - 1, rn)
  ELSE /\ tasks' = [tasks EXCEPT ![i] = [t EXCEPT !.pc = "waiting"]]
       /\ run' = rn
       /\ UNCHANGED <<store, nextId, leased, sem>>

\* ------------------------------------------------------------ process_queue
\* Lines 858-860: when the process_queue call of process_dlq ends, the
\* finally clause puts the saved name back; process_queue itself assigns
\* nothing.
RestoredName(call, current) ==
  IF call.call = "process_dlq" THEN call.original ELSE current

\* Variant: the batch is taken although the read raised.
MessagesReadAnyway(readOk, waiting, n) == Oldest(waiting, n)

\* Lines 159-168: the messages of the read, none when the read raises (the
\* handler of line 186 ends the call).
MessagesRead(readOk, waiting, n) ==
  IF readOk THEN Oldest(waiting, n) ELSE <<>>

\* ------------------------------------------------------ enqueue_notification
\* Python's None and the empty dict, for the optional arguments.
None == "None"
EmptyDict == "{}"

\* `x or {}` (lines 90-91).
OrEmptyDict(x) == IF x \in {None, EmptyDict} THEN EmptyDict ELSE x

\* Variant: the recipients are not looked at.
MissingTitleOrBody(title, body, recipients) == title = "" \/ body = ""

\* Line 76: not title or not body or not recipients.
MissingFields(title, body, recipients) ==
  title = "" \/ body = "" \/ recipients = <<>>

\* Variant: the priority is written as given.
PriorityAsGiven(priority) == priority

\* Lines 80-82: a priority outside default/normal/high becomes "default".
NormalPriority(priority) ==
  IF priority \in {"default", "normal", "high"} THEN priority ELSE "default"

\* Lines 84-93: the message written to the queue.
NewMessage(title, body, recipients, priority, metadata, data) ==
  [title |-> title, body |-> body, recipients |-> recipients,
   priority |-> NormalPriority(priority), failure_count |-> 0,
   metadata |-> OrEmptyDict(metadata), data |-> OrEmptyDict(data),
   created_at |-> "created_at"]

\* Variant: an exception of the queue write leaves the function.
EnqueueReturnUncaught(sendOk, client) == IF sendOk THEN "true" ELSE "raised"

\* Lines 111-132: True after the write, False when it raised; the sink is
\* told of the message (line 111) or of the exception (line 123), and an
\* exception of the helper of line 111 would reach that of line 123.
EnqueueReturn(sendOk, client) ==
  IF SinkHelper(client) # "returned" THEN "raised"
  ELSE IF sendOk THEN "true" ELSE "false"

\* enqueue_notification(title, body, recipients, priority, metadata, data)
\* on the queue store st; sendOk tells whether pgmq_public.send succeeds.
\* Gives the new store, the send requests made and the value returned.
EnqueueNotification(st, ids, qname, title, body, recipients, priority, metadata, data, sendOk, client) ==
  IF MissingFields(title, body, recipients)
  THEN [store |-> st, requests |-> <<>>, sent |-> FALSE, ret |-> "false"]
  ELSE LET message == json_dumps(NewMessage(title, body, recipients, priority,
                                            metadata, data))
       IN  [store    |-> IF sendOk THEN QSend(st, ids, qname, message) ELSE st,
            requests |-> << [queue_name |-> qname, message |-> message] >>,
            sent     |-> sendOk,
            ret      |-> EnqueueReturn(sendOk, client)]

\* The arguments a producer may pass.
Titles == {"", "title"}
Bodies == {"", "body"}
RecipientLists == {<<>>, Tokens}
PriorityArgs == {"default", "normal", "high", "urgent"}
MetadataArgs == {None, "metadata"}
DataArgs == {None, EmptyDict, "data"}

Arguments ==
  [title : Titles, body : Bodies, recipients : RecipientLists,
   priority : PriorityArgs, metadata : MetadataArgs, data : DataArgs]

\* No call of enqueue_notification yet.
NoCalls == [calls |-> 0]

\* ------------------------------------------------------------- CacheService
UserIds == {"u1", "u2"}
NotificationTypes == {"friend_requests", "friend_activity"}

\* settings.REDIS_CACHE_TTL
CacheTtl == 3600

\* A row of notification_settings as the queries select it, and the None
\* that stands for a missing row.
SettingsRow(u, fr, fa) ==
  [user_id |-> u, friend_requests |-> fr, friend_activity |-> fa]
NoRecord == [none |-> TRUE]
SettingsRows(u) == {SettingsRow(u, fr, fa) : fr \in BOOLEAN, fa \in BOOLEAN}

\* The token column of the rows of push_tokens of one user, for the
\* environment of the service; the column may hold an empty token.
TokenRows == {<<>>, <<"tokA">>, <<"tokA", "">>, <<"tokA", "tokB">>}

\* Lines 63, 105, 162 and 205: f"notification_settings:{user_id}" and
\* f"push_tokens:{user_id}".
CacheKey(prefix, user_id) == <<prefix, user_id>>
CacheKeys == {"notification_settings", "push_tokens"} \X UserIds

NoEntry == [set |-> FALSE]
EmptyRedis == [k \in CacheKeys |-> NoEntry]

Miss == [raised |-> FALSE, hit |-> FALSE]

\* Variant: an exception of the Redis read leaves _get_from_redis.
GetFromRedisUncaught(client, data, key, readOk) ==
  CASE client = None  -> Miss
    [] ~readOk        -> [raised |-> TRUE, hit |-> FALSE]
    [] ~data[key].set -> Miss
    [] OTHER          -> [raised |-> FALSE, hit |-> TRUE,
                          islist |-> data[key].value.kind = "array",
                          value |-> json_loads(data[key].value).obj]

\* _get_from_redis, lines 260-290: None without a client, on a missing key
\* and on any exception of the read; otherwise the decoded JSON value.
GetFromRedis(client, data, key, readOk) ==
  CASE client = None  -> Miss
    [] ~readOk        -> Miss
    [] ~data[key].set -> Miss
    [] OTHER          -> [raised |-> FALSE, hit |-> TRUE,
                          islist |-> data[key].value.kind = "array",
                          value |-> json_loads(data[key].value).obj]

\* _set_in_redis, lines 292-321: setex(key, ttl, serialized_value); nothing
\* is written without a client or when the write raises.
SetInRedis(client, data, key, serialized_value, ttl, writeOk) ==
  IF client = None \/ ~writeOk
  THEN data
  ELSE [data EXCEPT ![key] = [set |-> TRUE, value |-> serialized_value,
                              ttl |-> ttl]]

\* Variant: the settings are read from Supabase on a hit as well.
CachedSettingsIgnored(cached) == FALSE

\* Line 66 (and 165): cached_data is not None.
CachedSettings(cached) == cached.hit

\* get_notification_settings, lines 52-87.  readOk, dbOk: the Redis read
\* and the Supabase query do not raise; wok: the users whose Redis write
\* does not raise.  .single() raises when no row matches.
GetNotificationSettings(client, data, db, user_id, readOk, dbOk, wok) ==
  LET cache_key == CacheKey("notification_settings", user_id)
      cached    == GetFromRedis(client, data, cache_key, readOk)
  IN  CASE cached.raised ->
             [raised |-> TRUE, queries |-> 0, redis |-> data]
        [] CachedSettings(cached) ->
             [raised |-> FALSE, ret |-> cached.value, queries |-> 0,
              redis |-> data]
        [] ~dbOk \/ db.notification_settings[user_id] = NoRecord ->
             [raised |-> FALSE, ret |-> NoRecord, queries |-> 1, redis |-> data]
        [] OTHER ->
             [raised |-> FALSE, ret |-> db.notification_settings[user_id],
              queries |-> 1,
              redis |-> SetInRedis(client, data, cache_key,
                                   json_dumps(db.notification_settings[user_id]),
                                   CacheTtl, user_id \in wok)]

\* Lines 175 and 236-243: the tokens of the rows that have one.
TokenList(rows) == SelectSeq(rows, LAMBDA token : token # "")

\* get_push_tokens, lines 151-189: the list is cached, empty or not (lines
\* 179-183).
GetPushTokens(client, data, db, user_id, readOk, dbOk, wok) ==
  LET cache_key  == CacheKey("push_tokens", user_id)
      cached     == GetFromRedis(client, data, cache_key, readOk)
      token_list == TokenList(db.push_tokens[user_id])
  IN  CASE cached.raised ->
             [raised |-> TRUE, queries |-> 0, redis |-> data]
        [] cached.hit ->
             [raised |-> FALSE, queries |-> 0, redis |-> data,
              ret |-> IF cached.islist THEN cached.value ELSE <<>>]
        [] ~dbOk ->
             [raised |-> FALSE, ret |-> <<>>, queries |-> 1, redis |-> data]
        [] OTHER ->
             [raised |-> FALSE, ret |-> token_list, queries |-> 1,
              redis |-> SetInRedis(client, data, cache_key,
                                   json_dumps_list(token_list), CacheTtl,
                                   user_id \in wok)]

Range(s) == {s[n] : n \in 1..Len(s)}

\* Lines 110-127 and 209-227: the users whose key mget finds; without a
\* client, or when mget raises, every user is looked up in Supabase.
BatchHits(client, data, prefix, user_ids, readOk) ==
  IF client = None \/ ~readOk
  THEN {}
  ELSE {u \in Range(user_ids) : data[CacheKey(prefix, u)].set}

Uncached(user_ids, hits) == SelectSeq(user_ids, LAMBDA u : u \notin hits)

\* The entries of redis after the rows of the users of `users` were
\* written one by one under the keys of prefix.
SetEach(client, data, prefix, users, serialized, wok) ==
  [k \in CacheKeys |->
     IF k[1] = prefix /\ k[2] \in users
     THEN SetInRedis(client, data, k, serialized[k[2]], CacheTtl, k[2] \in wok)[k]
     ELSE data[k]]

\* get_notification_settings_batch, lines 89-149: a dict from the users
\* that have settings to their settings.
GetNotificationSettingsBatch(client, data, db, user_ids, readOk, dbOk, wok) ==
  LET prefix   == "notification_settings"
      hits     == BatchHits(client, data, prefix, user_ids, readOk)
      uncached == Uncached(user_ids, hits)
      found    == IF dbOk
                  THEN {u \in Range(uncached) :
                          db.notification_settings[u] # NoRecord}
                  ELSE {}
  IN  [raised  |-> FALSE,
       ret     |-> [u \in hits \cup found |->
                      IF u \in found
                      THEN db.notification_settings[u]
                      ELSE json_loads(data[CacheKey(prefix, u)].value).obj],
       queries |-> IF uncached = <<>> THEN 0 ELSE 1,
       redis   |-> SetEach(client, data, prefix, found,
                           [u \in found |->
                              json_dumps(db.notification_settings[u])], wok)]

\* get_push_tokens_batch, lines 191-258: a dict from every user to the
\* user's tokens; when the query raises, the users not cached are left out.
GetPushTokensBatch(client, data, db, user_ids, readOk, dbOk, wok) ==
  LET prefix   == "push_tokens"
      hits     == BatchHits(client, data, prefix, user_ids, readOk)
      uncached == Uncached(user_ids, hits)
      found    == IF dbOk THEN Range(uncached) ELSE {}
      cached(u) == data[CacheKey(prefix, u)].value
  IN  [raised  |-> FALSE,
       ret     |-> [u \in hits \cup found |->
                      IF u \in found
                      THEN TokenList(db.push_tokens[u])
                      ELSE IF cached(u).kind = "array"
                           THEN json_loads(cached(u)).obj ELSE <<>>],
       queries |-> IF uncached = <<>> THEN 0 ELSE 1,
       redis   |-> SetEach(client, data, prefix, found,
                           [u \in found |->
                              json_dumps_list(TokenList(db.push_tokens[u]))],
                           wok)]

\* ------------------------------------- recipients (both services above)
\* The call of a batch getter of the cache service returns, or an
\* exception leaves it.
Answer(eff) == [raised |-> FALSE, ret |-> eff.ret]
LookupRaised == [raised |-> TRUE]

\* Variant: a user without a settings record is left out.
EnabledIfRecorded(settings_dict, user_id, notification_type) ==
  /\ user_id \in DOMAIN settings_dict
  /\ Get(settings_dict[user_id], notification_type, TRUE)

\* Lines 217-226 (friend_service.py 291-299): no record for the user, or
\* setting.get(notification_type, True).
Enabled(settings_dict, user_id, notification_type) ==
  \/ user_id \notin DOMAIN settings_dict
  \/ Get(settings_dict[user_id], notification_type, TRUE)

\* _filter_recipients_by_notification_settings, lines 191-232 (the same
\* code in friend_service.py, lines 265-306).  lookup: what the call of
\* get_notification_settings_batch gave.
FilterRecipients(user_ids, notification_type, lookup) ==
  CASE user_ids = <<>> -> <<>>
    [] lookup.raised   -> user_ids
    [] OTHER -> SelectSeq(user_ids,
                          LAMBDA u : Enabled(lookup.ret, u, notification_type))

RECURSIVE Flatten(_, _)
\* Lines 254-258: all_tokens.extend(tokens_dict.get(user_id, [])) for each
\* user in turn.
Flatten(user_ids, tokens_dict) ==
  IF user_ids = <<>> THEN <<>>
  ELSE (IF Head(user_ids) \in DOMAIN tokens_dict
        THEN tokens_dict[Head(user_ids)] ELSE <<>>)
       \o Flatten(Tail(user_ids), tokens_dict)

\* _get_push_tokens_for_users, lines 234-265 (friend_service.py 308-338).
PushTokensForUsers(user_ids, lookup) ==
  CASE user_ids = <<>> -> <<>>
    [] lookup.raised   -> <<>>
    [] OTHER           -> Flatten(user_ids, lookup.ret)

\* A row of profiles as _get_user_profile selects it.
Profile(username, full_name) == [username |-> username, full_name |-> full_name]

\* What a call of a service above keeps of its course, leaving out the
\* stores it has written.
Keeps(eff) == [k \in DOMAIN eff \ {"redis", "store", "enqueued"} |-> eff[k]]

\* ------------------------------------------------------------ FriendService
\* _get_user_profile, lines 246-263: the row, or None when there is none
\* (.single() raises) or the query fails.
GetUserProfile(db, user_id, dbOk) ==
  IF dbOk THEN db.profiles[user_id] ELSE NoRecord

\* x or y, for values that are None or a non-empty text.
Or(x, y) == IF x # None THEN x ELSE y

\* Line 83.
SenderName(profile) == Or(profile.username, Or(profile.full_name, "Someone"))

\* Line 65: not friendship_id or not sender_id or not recipient_id.
MissingIds(friendship) ==
  \/ Get(friendship, "id", None) = None
  \/ Get(friendship, "user_id", None) = None
  \/ Get(friendship, "friend_id", None) = None

\* Variant: the status of the friendship is not looked at.
NotPendingIgnored(friendship) == FALSE

\* Lines 63 and 73: friendship.get("status", "pending") != "pending".
NotPending(friendship) == Get(friendship, "status", "pending") # "pending"

\* The lookups of one call of a service above the cache: each query of
\* Supabase answers or fails, and so do the reads and the writes of Redis
\* (wok: the users whose entry can be written).
LookupInputs(users) ==
  [readOk : BOOLEAN, dbOk : BOOLEAN, wok : SUBSET users]

\* The call has ended before it reached the cache and the queue.
Ended(ret, branch, data, st, profile) ==
  [ret |-> ret, branch |-> branch, redis |-> data, store |-> st,
   sent |-> FALSE, enqueue_calls |-> 0, profile |-> profile]

\* send_friend_request_notification, lines 39-139.  profileOk: the query of
\* the profile answers; s, t: the lookups of the settings and of the tokens;
\* sendOk: the write to the queue answers.
SendFriendRequestNotification(friendship, client, data, db, st, ids, qname, sink, profileOk, s, t, sendOk) ==
  IF MissingIds(friendship)
  THEN Ended("false", "missing_fields", data, st, NoRecord)
  ELSE IF NotPending(friendship)
  THEN Ended("true", "not_pending", data, st, NoRecord)
  ELSE
  LET sender_profile == GetUserProfile(db, friendship.user_id, profileOk)
  IN  IF sender_profile = NoRecord
      THEN Ended("false", "no_profile", data, st, NoRecord)
      ELSE
      LET recipient_ids == << friendship.friend_id >>
          got1 == GetNotificationSettingsBatch(client, data, db, recipient_ids,
                                               s.readOk, s.dbOk, s.wok)
          settings_dict == Answer(got1)
          data1 == got1.redis
          filtered_recipients ==
            FilterRecipients(recipient_ids, "friend_requests", settings_dict)
          got2 == GetPushTokensBatch(client, data1, db, filtered_recipients,
                                     t.readOk, t.dbOk, t.wok)
          tokens_dict == Answer(got2)
          data2 == got2.redis
          push_tokens == PushTokensForUsers(filtered_recipients, tokens_dict)
          eff == EnqueueNotification(st, ids, qname, "New Friend Request",
                                     SenderName(sender_profile)
                                       \o " sent you a friend request",
                                     push_tokens, "normal", "metadata", "data",
                                     sendOk, sink)
          seen == [profile |-> sender_profile, settings_dict |-> settings_dict,
                   filtered_recipients |-> filtered_recipients]
      IN  IF filtered_recipients = <<>>
          THEN Ended("true", "disabled", data1, st, sender_profile) @@ seen
          ELSE IF push_tokens = <<>>
          THEN Ended("true", "no_tokens", data2, st, sender_profile) @@ seen
                 @@ [push_tokens |-> push_tokens]
          ELSE [ret |-> IF eff.ret = "raised" THEN "false" ELSE eff.ret,
                branch |-> "enqueue", redis |-> data2, store |-> eff.store,
                sent |-> eff.sent, enqueue_calls |-> 1,
                push_tokens |-> push_tokens, enqueued |-> eff] @@ seen

\* ----------------------------------------------- NotificationEnqueueService
\* Line 116: the users the entry is shared with, without its owner.
WithoutOwner(shared_with, owner_id) ==
  SelectSeq(shared_with, LAMBDA user_id : user_id # owner_id)

\* Line 103: is_private and not shared_with and not shared_with_everyone.
PrivateNotShared(entry) ==
  /\ Get(entry, "is_private", FALSE)
  /\ Get(entry, "shared_with", <<>>) = <<>>
  /\ ~Get(entry, "shared_with_everyone", FALSE)

\* str.capitalize() of the entry types.
Capitalize(entry_type) ==
  CASE entry_type = "photo" -> "Photo"
    [] entry_type = "video" -> "Video"
    [] entry_type = "audio" -> "Audio"
    [] OTHER                -> "Entry"

\* Line 142.
EntryTypeDisplay(entry_type) ==
  IF entry_type # "audio" THEN "a " \o Capitalize(entry_type)
  ELSE "an audio recording"

\* enqueue_entry_notification, lines 69-175.
EnqueueEntryNotification(entry, client, data, db, st, ids, qname, sink, profileOk, s, t, sendOk) ==
  IF Get(entry, "id", None) = None \/ Get(entry, "user_id", None) = None
  THEN Ended("false", "missing_fields", data, st, NoRecord)
  ELSE IF PrivateNotShared(entry)
  THEN Ended("true", "private", data, st, NoRecord)
  ELSE
  LET owner_profile == GetUserProfile(db, entry.user_id, profileOk)
      recipient_user_ids ==
        WithoutOwner(Get(entry, "shared_with", <<>>), entry.user_id)
  IN  IF owner_profile = NoRecord
      THEN Ended("false", "no_profile", data, st, NoRecord)
      ELSE IF recipient_user_ids = <<>>
      THEN Ended("true", "no_recipients", data, st, owner_profile)
      ELSE
      LET got1 == GetNotificationSettingsBatch(client, data, db,
                                               recipient_user_ids,
                                               s.readOk, s.dbOk, s.wok)
          filtered_recipients ==
            FilterRecipients(recipient_user_ids, "friend_activity", Answer(got1))
          got2 == GetPushTokensBatch(client, got1.redis, db, filtered_recipients,
                                     t.readOk, t.dbOk, t.wok)
          push_tokens == PushTokensForUsers(filtered_recipients, Answer(got2))
          eff == EnqueueNotification(st, ids, qname, "New Entry Shared",
                                     SenderName(owner_profile) \o " shared "
                                       \o EntryTypeDisplay(Get(entry, "type", "entry"))
                                       \o " with you",
                                     push_tokens, "normal", "metadata", "data",
                                     sendOk, sink)
          seen == [profile |-> owner_profile, settings_dict |-> Answer(got1),
                   filtered_recipients |-> filtered_recipients]
      IN  IF filtered_recipients = <<>>
          THEN Ended("true", "disabled", got1.redis, st, owner_profile) @@ seen
          ELSE IF push_tokens = <<>>
          THEN Ended("true", "no_tokens", got2.redis, st, owner_profile) @@ seen
                 @@ [push_tokens |-> push_tokens]
          ELSE [ret |-> IF eff.ret = "raised" THEN "false" ELSE eff.ret,
                branch |-> "enqueue", redis |-> got2.redis, store |-> eff.store,
                sent |-> eff.sent, enqueue_calls |-> 1,
                push_tokens |-> push_tokens, enqueued |-> eff] @@ seen

\* ------------------------------------------------------- routers/webhooks.py
HttpError(code) == [http |-> code]

\* Lines 91-122: the response of an INSERT.
InsertResponse(ingestion_success, notification_success) ==
  [http |-> 200,
   status |-> CASE ingestion_success /\ notification_success -> "success"
                [] ingestion_success \/ notification_success -> "partial_success"
                [] OTHER -> "partial_failure",
   ingestion |-> IF ingestion_success THEN "success" ELSE "failed",
   notification |-> IF notification_success THEN "success" ELSE "failed"]

\* Variant: an exception of the ingestion ends the handler (lines 172-179).
AfterIngestionUncaught(ingested) == IF ingested = "raised" THEN "abort" ELSE "go_on"

\* Lines 74-80: whatever ingest_entry does, the handler goes on.
AfterIngestion(ingested) == "go_on"

\* Not payload.record: None or an empty dict.
NoDict(record) == record = NoRecord \/ DOMAIN record = {}

\* entry_webhook, lines 34-179.  ingested: ingest_entry (or update_entry,
\* delete_entry) returned True or False, or raised; notified: what
\* enqueue_entry_notification did, and notifyOk: it did not raise.
EntryWebhook(payload, data, st, ingested, notified, notifyOk) ==
  LET untouched == [redis |-> data, store |-> st, sent |-> FALSE,
                    enqueue_calls |-> 0, ingestion_calls |-> 0,
                    notification_calls |-> 0]
  IN  CASE payload.table # "entries" ->
             [response |-> [http |-> 200, status |-> "ignored"]] @@ untouched
        [] payload.type = "INSERT" ->
             IF NoDict(payload.record)
             THEN [response |-> HttpError(400)] @@ untouched
             ELSE IF AfterIngestion(ingested) = "abort"
             THEN [response |-> HttpError(500), ingestion_calls |-> 1]
                    @@ untouched
             ELSE IF notifyOk
             THEN [response |-> InsertResponse(ingested = "true", TRUE),
                   ingestion_calls |-> 1, notification_calls |-> 1,
                   notification |-> Keeps(notified)]
                    @@ [k \in {"redis", "store", "sent", "enqueue_calls"}
                           \cup (DOMAIN notified \cap {"enqueued"}) |-> notified[k]]
             ELSE [response |-> InsertResponse(ingested = "true", FALSE),
                   ingestion_calls |-> 1, notification_calls |-> 1]
                    @@ untouched
        [] payload.type \in {"UPDATE", "DELETE"} ->
             IF NoDict(IF payload.type = "UPDATE" THEN payload.record
                       ELSE payload.old_record)
             THEN [response |-> HttpError(400)] @@ untouched
             ELSE [response |-> CASE ingested = "true" ->
                                       [http |-> 200, status |-> "success"]
                                  [] OTHER -> HttpError(500),
                   ingestion_calls |-> 1] @@ untouched
        [] OTHER -> [response |-> HttpError(400)] @@ untouched

\* The tables before any row is written, and before any call.
NoRows ==
  [notification_settings |-> [u \in UserIds |-> NoRecord],
   push_tokens           |-> [u \in UserIds |-> <<>>],
   profiles              |-> [u \in UserIds |-> NoRecord],
   changes               |-> 0]
NoSvcCall == [calls |-> 0]

\* ----------------------------------------------------- NotificationScheduler
\* Line 39: the id of the recurring job.
JobId == "process_notification_queue"

\* Calls of start() and stop() made in one behaviour.
MaxCalls == MaxMsgs + 1

\* Lines 20-22: the scheduler object after construction, and an empty
\* record of what it has been asked to do.
NewScheduler == [state |-> "stopped", jobs |-> <<>>]
NoHistory ==
  [calls |-> <<>>, starts |-> 0, shutdowns |-> 0, service_shutdowns |-> 0,
   ticks |-> <<>>]

\* add_job(..., id=JobId, replace_existing=True), lines 36-42: a job with
\* the same id is replaced.
AddJob(jobs, id) == SelectSeq(jobs, LAMBDA j : j # id) \o <<id>>

\* Variant: start() does not look at is_running.
AlreadyRunningIgnored(running) == FALSE

\* Line 31: if self.is_running.
AlreadyRunning(running) == running

\* Variant: the exception of process_queue leaves the job.
ProcessQueueJobUncaught(outcome) ==
  IF outcome = "raised" THEN "propagated" ELSE outcome

\* _process_queue_job, lines 72-77: an exception of process_queue is logged.
ProcessQueueJob(outcome) ==
  IF outcome = "raised" THEN "caught" ELSE outcome

\* The calls of process_queue that are suspended in asyncio.gather.
InFlightRuns == {r \in Runs : run[r].pc = "gather"}

\* ------------------------------------------------------------------ actions
\* A producer calls enqueue_notification (lines 52-132); the call runs
\* without suspension, with arguments of the given set; at most `limit`
\* calls are made.
EnqueueFrom(arguments, limit) ==
  /\ enq.calls < limit
  /\ \E a \in arguments, sendOk \in BOOLEAN :
       LET eff == EnqueueNotification(store, nextId, queue_name, a.title,
                                      a.body, a.recipients, a.priority,
                                      a.metadata, a.data, sendOk,
                                      posthog_client)
       IN  /\ store' = eff.store
           /\ nextId' = IF eff.sent
                        THEN [nextId EXCEPT ![queue_name] = @ + 1] ELSE nextId
           /\ enq' = [calls |-> enq.calls + 1,
                      title |-> a.title, body |-> a.body,
                      recipients |-> a.recipients, priority |-> a.priority,
                      metadata |-> a.metadata, data |-> a.data,
                      requests |-> eff.requests, ret |-> eff.ret]
  /\ UNCHANGED <<leased, sem, run, tasks, settings, is_running, scheduler, hist,
                 outer>>

Enqueue == EnqueueFrom(Arguments, MaxMsgs)

\* process_queue, lines 146-178: read a batch and start one coroutine per
\* message; a failing read and an empty read end the call with zero stats.
StartRun(r, qname, call, original) ==
  /\ run[r].pc = "idle"
  /\ \E readOk \in BOOLEAN :
       LET msgs == MessagesRead(readOk, Visible(qname), batch_size)
           read == IF ~readOk THEN "failed"
                   ELSE IF Visible(qname) = {} THEN "empty" ELSE "batch"
           end  == ProcessQueueEnds(~readOk, posthog_client)
       IN  IF msgs = <<>>
           THEN /\ run' = [run EXCEPT ![r] =
                             [pc |-> end, src |-> qname,
                              read |-> read, call |-> call,
                              original |-> original,
                              stats |-> ZeroStats,
                              ret |-> IF end = "returned"
                                      THEN <<ZeroStats>> ELSE <<>>]]
                /\ UNCHANGED <<leased, tasks>>
           ELSE /\ run' = [run EXCEPT ![r] =
                             [pc |-> "gather", src |-> qname,
                              read |-> read, call |-> call,
                              original |-> original,
                              stats |-> ZeroStats, ret |-> <<>>]]
                /\ leased' = [leased EXCEPT ![qname] =
                                @ \cup {msgs[n].id : n \in 1..Len(msgs)}]
                /\ tasks' = tasks \o
                     [n \in 1..Len(msgs) |->
                        NewTask(r, msgs[n], 0, DefaultMaxRetries, TRUE)]
  /\ UNCHANGED <<store, nextId, sem, concurrency, batch_size, posthog_client>>

\* process_queue from its call to its first suspension, reading the queue
\* self.queue_name names at that moment (line 162).
ReadBatch(r) ==
  /\ StartRun(r, queue_name, "process_queue", queue_name)
  /\ UNCHANGED queue_name

\* process_queue called by hand.
ProcessQueue(r) == ReadBatch(r) /\ UNCHANGED around

\* process_dlq, lines 838-862, to its first suspension: queue_name is set
\* to dlq_name and process_queue is awaited; when that call returns within
\* the step (failed or empty read) the finally clause restores the name.
ProcessDlq(r) ==
  /\ StartRun(r, DeadLetterQueue, "process_dlq", queue_name)
  /\ queue_name' = IF run'[r].pc = "returned" THEN queue_name
                   ELSE DeadLetterQueue
  /\ UNCHANGED around

\* _process_message from its start to its first suspension (lines 205-241
\* and, for a payload that is not sent, to its end).  The coroutines of a
\* batch start in the order of the batch.
StartMessage(i) ==
  LET t  == tasks[i]
      r  == t.caller
      d  == DecodeMessage(t.message)
      rn == [run EXCEPT ![r].stats = Bump(@, "processed")]
  IN  /\ t.pc = "new"
      /\ r \in Runs
      /\ \A j \in TasksOf(r) : j < i => tasks[j].pc # "new"
      /\ IF d.raised
         THEN \* json.loads raises before the try block: the coroutine dies.
              /\ tasks' = [tasks EXCEPT ![i] =
                             [t EXCEPT !.pc = "raised", !.outcome = "undecodable"]]
              /\ UNCHANGED <<store, nextId, leased, sem, run>>
         ELSE IF ~d.isdict
         THEN \* msg_data.get raises inside the try block.
              LET eff == WithSink([stats   |-> Bump(rn[r].stats, "failed"),
                                   outcome |-> "error"], posthog_client)
              IN  /\ tasks' = [tasks EXCEPT ![i] =
                                 [t EXCEPT !.pc = EndOf(eff.outcome),
                                           !.outcome = eff.outcome]]
                  /\ run' = [rn EXCEPT ![r].stats = eff.stats]
                  /\ UNCHANGED <<store, nextId, leased, sem>>
         ELSE IF InvalidFormat(d.obj)
         THEN \E delOk \in BOOLEAN :
                LET eff == WithSink(DiscardInvalid(store, rn[r].stats,
                                                   queue_name, t.msg_id, delOk),
                                    posthog_client)
                IN  /\ tasks' = [tasks EXCEPT ![i] =
                                   [t EXCEPT !.pc = EndOf(eff.outcome),
                                             !.outcome = eff.outcome,
                                             !.calls = eff.calls]]
                    /\ run' = [rn EXCEPT ![r].stats = eff.stats]
                    /\ store' = eff.store
                    /\ UNCHANGED <<nextId, leased, sem>>
         ELSE EnterSend(i, t, rn)
      /\ UNCHANGED <<settings, around>>

\* A direct call of _send_notification, from its start to its first
\* suspension.
CallSend(i) ==
  /\ tasks[i].pc = "new"
  /\ tasks[i].caller \notin Runs
  /\ EnterSend(i, tasks[i], run)
  /\ UNCHANGED <<settings, around>>

\* A coroutine waiting at line 305 gets a permit and makes its first request.
AcquirePermit(i) ==
  /\ tasks[i].pc = "waiting"
  /\ PermitFree(sem)
  /\ \E sdkResp \in SdkAnswersFor(tasks[i]), jitter \in JittersFor(tasks[i]) :
       Continue(i, Attempt(Acquired(tasks[i]), sdkResp, jitter), sem - 1, run)
  /\ UNCHANGED <<settings, around>>

\* The gateway answers the request of task i (lines 377-447): the send
\* returns, or the coroutine goes to sleep before the next attempt.
GatewayAnswersFrom(i, answers) ==
  /\ tasks[i].pc = "inflight"
  /\ \E resp \in answers, jitter \in JittersFor(tasks[i]) :
       LET t == tasks[i]
       IN  Continue(i, Settle(t, RestOutcome(resp, t.retry, t.max_retries),
                              resp, jitter),
                    sem, run)
  /\ UNCHANGED <<settings, around>>

GatewayAnswers(i) == GatewayAnswersFrom(i, AnswersFor(tasks[i]))

\* The visibility timeout of the read (line 162, 300 seconds) is over for
\* message id of queue q, which is still in the queue: it can be read again.
Reappear(q, id) ==
  /\ id \in leased[q]
  /\ \E m \in store[q] : m.id = id
  /\ leased' = [leased EXCEPT ![q] = @ \ {id}]
  /\ UNCHANGED <<store, nextId, sem, run, tasks, settings, around>>

\* The call r of process_queue or process_dlq is over and its caller (the
\* scheduler's next tick, a later manual trigger) makes another call; at
\* most `limit` messages are read in all.
CallAgain(r, limit) ==
  /\ run[r].pc = "returned"
  /\ Len(tasks) < limit
  /\ run' = [run EXCEPT ![r] = [pc |-> "idle", src |-> MainQueue,
                                read |-> "none", call |-> "none",
                                original |-> MainQueue, stats |-> ZeroStats,
                                ret |-> <<>>]]
  /\ UNCHANGED <<store, nextId, leased, sem, tasks, settings, around>>

\* The backoff sleep of task i is over (lines 431-440 and 508-517): the
\* function calls itself with retry_count + 1, still inside the permit.
BackoffElapsed(i) ==
  /\ tasks[i].pc = "sleeping"
  /\ \E sdkResp \in SdkAnswersFor(tasks[i]), jitter \in JittersFor(tasks[i]) :
       Continue(i, Attempt([tasks[i] EXCEPT !.retry = @ + 1], sdkResp, jitter),
                sem, run)
  /\ UNCHANGED <<settings, around>>

\* asyncio.gather ends, lines 178-193: with every coroutine finished, or
\* with the first exception of a coroutine (the others go on running);
\* process_queue catches the exception and returns the stats as they are.
\* When it resumes every coroutine of the batch has had its first step.
ReturnStats(r) ==
  /\ run[r].pc = "gather"
  /\ \/ \A i \in TasksOf(r) : tasks[i].pc = "done"
     \/ /\ \E i \in TasksOf(r) : tasks[i].pc = "raised"
        /\ \A i \in TasksOf(r) : tasks[i].pc # "new"
  /\ LET raised == \E i \in TasksOf(r) : tasks[i].pc = "raised"
         end == ProcessQueueEnds(raised, posthog_client)
     IN  run' = [run EXCEPT ![r].pc = end,
                            ![r].ret = IF end = "returned"
                                       THEN <<run[r].stats>> ELSE <<>>]
  /\ queue_name' = RestoredName(run[r], queue_name)
  /\ UNCHANGED <<store, nextId, leased, sem, tasks, concurrency, batch_size,
                 posthog_client, around>>

\* The task awaiting process_dlq is cancelled from outside: the coroutines
\* of the batch are cancelled with it, the permits they hold are released
\* on the way out, and the finally clause (lines 858-860) restores the name.
CancelDlq(r) ==
  LET gone == {i \in TasksOf(r) : tasks[i].pc \notin {"done", "raised"}}
      held == {i \in gone : tasks[i].pc \in {"inflight", "sleeping"}}
  IN  /\ run[r].pc = "gather"
      /\ run[r].call = "process_dlq"
      /\ run' = [run EXCEPT ![r].pc = "cancelled"]
      /\ tasks' = [i \in TaskIds |->
                     IF i \in held
                     THEN Released([tasks[i] EXCEPT !.pc = "cancelled"])
                     ELSE IF i \in gone
                     THEN [tasks[i] EXCEPT !.pc = "cancelled"]
                     ELSE tasks[i]]
      /\ sem' = sem + Cardinality(held)
      /\ queue_name' = RestoredName(run[r], queue_name)
      /\ UNCHANGED <<store, nextId, leased, concurrency, batch_size,
                     posthog_client, around>>

\* NotificationScheduler.start(), lines 25-46.
Start ==
  /\ Len(hist.calls) < MaxCalls
  /\ IF AlreadyRunning(is_running)
     THEN /\ hist' = [hist EXCEPT !.calls = Append(@, "start")]
          /\ UNCHANGED <<is_running, scheduler>>
     ELSE /\ scheduler' = [state |-> "running",
                           jobs  |-> AddJob(scheduler.jobs, JobId)]
          /\ is_running' = TRUE
          /\ hist' = [hist EXCEPT !.calls = Append(@, "start"),
                                  !.starts = @ + 1]
  /\ UNCHANGED <<store, nextId, leased, sem, run, tasks, settings, enq, outer>>

\* NotificationScheduler.stop(), lines 48-64.  The method has no await: no
\* coroutine of a batch in flight runs while it executes.  What
\* AsyncIOScheduler.shutdown(wait=True) does to the job in flight and to
\* the job store is the library's business: the job is left running or is
\* cancelled, the registered job is kept or dropped.
Stop ==
  /\ Len(hist.calls) < MaxCalls
  /\ IF ~is_running
     THEN /\ hist' = [hist EXCEPT !.calls = Append(@, "stop")]
          /\ UNCHANGED <<is_running, scheduler, run, tasks, sem>>
     ELSE \E cancel \in BOOLEAN, keep \in BOOLEAN :
            LET hit == IF cancel THEN InFlightRuns ELSE {}
                gone == {i \in TaskIds : /\ tasks[i].caller \in hit
                                         /\ tasks[i].pc \notin {"done", "raised"}}
                held == {i \in gone : tasks[i].pc \in {"inflight", "sleeping"}}
            IN  /\ scheduler' = [state |-> "stopped",
                                 jobs  |-> IF keep THEN scheduler.jobs ELSE <<>>]
                /\ is_running' = FALSE
                /\ hist' = [hist EXCEPT !.calls = Append(@, "stop"),
                                        !.shutdowns = @ + 1,
                                        !.service_shutdowns = @ + 1]
                /\ run' = [r \in Runs |->
                             IF r \in hit THEN [run[r] EXCEPT !.pc = "cancelled"]
                             ELSE run[r]]
                /\ tasks' = [i \in TaskIds |->
                               IF i \in held
                               THEN Released([tasks[i] EXCEPT !.pc = "cancelled"])
                               ELSE IF i \in gone
                               THEN [tasks[i] EXCEPT !.pc = "cancelled"]
                               ELSE tasks[i]]
                /\ sem' = sem + Cardinality(held)
  /\ UNCHANGED <<store, nextId, leased, settings, enq, outer>>

\* The interval trigger fires and the scheduler runs _process_queue_job
\* (lines 66-77) up to its first suspension: process_queue reads a batch,
\* or the call raises and the job logs the exception.
Tick(r) ==
  /\ scheduler.state = "running"
  /\ \E n \in 1..Len(scheduler.jobs) : scheduler.jobs[n] = JobId
  /\ \E raises \in BOOLEAN :
       IF raises
       THEN /\ run[r].pc = "idle"
            /\ run' = [run EXCEPT ![r].pc = "raised"]
            /\ hist' = [hist EXCEPT !.ticks = Append(@, ProcessQueueJob("raised"))]
            /\ UNCHANGED <<store, nextId, leased, sem, tasks, settings>>
       ELSE /\ ReadBatch(r)
            /\ hist' = [hist EXCEPT !.ticks = Append(@, ProcessQueueJob("called"))]
  /\ UNCHANGED <<enq, is_running, scheduler, outer>>

\* The state of the pipeline and of the scheduler, which no call of
\* CacheService touches.
pipeline ==
  <<store, nextId, leased, sem, run, tasks, settings, enq, is_running,
    scheduler, hist>>

MaxCacheCalls == 2
MaxChanges == 1

\* A getter of CacheService has run and left effect eff.
CacheCall(op, user_ids, readOk, dbOk, wok, eff) ==
  /\ svc.calls < MaxCacheCalls
  /\ redis' = eff.redis
  /\ svc' = [calls |-> svc.calls + 1, op |-> op, user_ids |-> user_ids,
             readOk |-> readOk, dbOk |-> dbOk, wok |-> wok,
             raised |-> eff.raised, queries |-> eff.queries,
             ret |-> IF eff.raised THEN NoRecord ELSE eff.ret]
  /\ UNCHANGED <<redis_client, supabase, pipeline>>

CallGetNotificationSettings ==
  \E u \in UserIds, readOk \in BOOLEAN, dbOk \in BOOLEAN :
    \E wok \in SUBSET {u} :
      CacheCall("get_notification_settings", <<u>>, readOk, dbOk, wok,
                GetNotificationSettings(redis_client, redis, supabase, u,
                                        readOk, dbOk, wok))

CallGetPushTokens ==
  \E u \in UserIds, readOk \in BOOLEAN, dbOk \in BOOLEAN :
    \E wok \in SUBSET {u} :
      CacheCall("get_push_tokens", <<u>>, readOk, dbOk, wok,
                GetPushTokens(redis_client, redis, supabase, u, readOk, dbOk,
                              wok))

\* The lists of users of the batch calls.
UserLists == {<<>>, <<"u1">>, <<"u2", "u1">>}

CallGetNotificationSettingsBatch ==
  \E user_ids \in UserLists, readOk \in BOOLEAN, dbOk \in BOOLEAN :
    \E wok \in SUBSET Range(user_ids) :
      CacheCall("get_notification_settings_batch", user_ids, readOk, dbOk, wok,
                GetNotificationSettingsBatch(redis_client, redis, supabase,
                                             user_ids, readOk, dbOk, wok))

CallGetPushTokensBatch ==
  \E user_ids \in UserLists, readOk \in BOOLEAN, dbOk \in BOOLEAN :
    \E wok \in SUBSET Range(user_ids) :
      CacheCall("get_push_tokens_batch", user_ids, readOk, dbOk, wok,
                GetPushTokensBatch(redis_client, redis, supabase, user_ids,
                                   readOk, dbOk, wok))

\* The call of a batch getter made by a service above: the getter as it is,
\* or an exception that leaves the call (lookupOk false).
Lookup(lookupOk, eff) ==
  IF lookupOk THEN Answer(eff) ELSE LookupRaised

\* The lists of users handed to the filter.
FilterUserLists == UserLists \cup {<<"u1", "u2", "u1">>}

\* A call of _filter_recipients_by_notification_settings.
CallFilter ==
  /\ svc.calls < MaxCacheCalls
  /\ \E user_ids \in FilterUserLists, notification_type \in NotificationTypes,
        readOk \in BOOLEAN, dbOk \in BOOLEAN, lookupOk \in BOOLEAN :
       \E wok \in SUBSET Range(user_ids) :
         LET eff == GetNotificationSettingsBatch(redis_client, redis, supabase,
                                                 user_ids, readOk, dbOk, wok)
             settings_dict == Lookup(lookupOk, eff)
             asked == user_ids # <<>>
         IN  /\ redis' = IF asked /\ lookupOk THEN eff.redis ELSE redis
             /\ svc' = [calls |-> svc.calls + 1, op |-> "filter",
                        user_ids |-> user_ids,
                        notification_type |-> notification_type,
                        asked |-> asked,
                        settings_dict |-> settings_dict,
                        ret |-> FilterRecipients(user_ids, notification_type,
                                                 settings_dict)]
  /\ UNCHANGED <<redis_client, supabase, pipeline>>

\* What a service above leaves in the queue store and in the cache.
Produced(op, arg, limit, eff) ==
  /\ svc.calls < limit
  /\ redis' = eff.redis
  /\ store' = eff.store
  /\ nextId' = IF eff.sent THEN [nextId EXCEPT ![queue_name] = @ + 1] ELSE nextId
  /\ enq' = IF eff.enqueue_calls = 0 THEN enq
            ELSE [calls |-> enq.calls + 1, requests |-> eff.enqueued.requests,
                  ret |-> eff.enqueued.ret]
  /\ svc' = [calls |-> svc.calls + 1, op |-> op, arg |-> arg] @@ Keeps(eff)
  /\ UNCHANGED <<redis_client, supabase, leased, sem, run, tasks, settings,
                 is_running, scheduler, hist>>

\* The friendships of the webhook: complete, or lacking one of the ids;
\* pending, accepted, or without a status.
Friendships ==
  {[id |-> "f1", user_id |-> "u1", friend_id |-> "u2", status |-> st] :
     st \in {"pending", "accepted"}}
  \cup {[id |-> "f1", user_id |-> "u1", friend_id |-> "u2"]}
  \cup {[id |-> None, user_id |-> "u1", friend_id |-> "u2", status |-> "pending"],
        [id |-> "f1", user_id |-> None, friend_id |-> "u2", status |-> "pending"],
        [id |-> "f1", user_id |-> "u1", friend_id |-> None, status |-> "pending"]}
  \cup {[id |-> None, user_id |-> "u1", friend_id |-> "u2", status |-> "accepted"]}

\* A call of send_friend_request_notification.
CallSendFriendRequest ==
  \E friendship \in Friendships, profileOk \in BOOLEAN, sendOk \in BOOLEAN,
     s \in LookupInputs({"u2"}), tokensOk \in BOOLEAN :
    LET t == [s EXCEPT !.dbOk = tokensOk] IN
    Produced("send_friend_request_notification", friendship, MaxCacheCalls,
             SendFriendRequestNotification(friendship, redis_client, redis,
                                           supabase, store, nextId, queue_name,
                                           posthog_client, profileOk, s, t,
                                           sendOk))

\* The records of the entries webhook: an entry of u1, private or not,
\* shared with nobody, with u2, or with u1 and u2; an entry without id.
Entry(entry_type, shared_with, is_private) ==
  [id |-> "e1", user_id |-> "u1", type |-> entry_type,
   shared_with |-> shared_with, is_private |-> is_private,
   shared_with_everyone |-> FALSE]

Entries ==
  {Entry("photo", sw, p) : sw \in {<<>>, <<"u2">>, <<"u1", "u2">>}, p \in BOOLEAN}
    \cup {Entry("audio", <<"u2">>, FALSE), [user_id |-> "u1", type |-> "photo"]}

WebhookPayload(type, table, record, old_record) ==
  [type |-> type, table |-> table, record |-> record, old_record |-> old_record]

EntryWebhookPayloads ==
  {WebhookPayload("INSERT", "entries", r, NoRecord) :
     r \in Entries \cup {NoRecord, <<>>}}
  \cup {WebhookPayload("INSERT", "friendships", Entry("photo", <<"u2">>, FALSE),
                       NoRecord)}
  \cup {WebhookPayload("UPDATE", "entries", r, NoRecord) :
          r \in {Entry("photo", <<"u2">>, FALSE), NoRecord}}
  \cup {WebhookPayload("DELETE", "entries", NoRecord, r) :
          r \in {Entry("photo", <<"u2">>, FALSE), NoRecord}}
  \cup {WebhookPayload("TRUNCATE", "entries", NoRecord, NoRecord)}

MaxWebhooks == 1

\* A request to POST /webhooks/entries.
CallEntryWebhook ==
  \E payload \in EntryWebhookPayloads, ingested \in {"true", "false", "raised"},
     notifyOk \in BOOLEAN, profileOk \in BOOLEAN, sendOk \in BOOLEAN,
     s \in LookupInputs({"u2"}), tokensOk \in BOOLEAN :
    LET t == [s EXCEPT !.dbOk = tokensOk]
        notified ==
          IF NoDict(payload.record) THEN Ended("false", "none", redis, store, NoRecord)
          ELSE EnqueueEntryNotification(payload.record, redis_client, redis,
                                        supabase, store, nextId, queue_name,
                                        posthog_client, profileOk, s, t, sendOk)
    IN  Produced("entry_webhook", payload, MaxWebhooks,
                 [ingested |-> ingested, notifyOk |-> notifyOk]
                   @@ EntryWebhook(payload, redis, store, ingested, notified,
                                   notifyOk))

\* The time to live of an entry of Redis is over (setex, line 316).
Expire(k) ==
  /\ redis[k].set
  /\ redis' = [redis EXCEPT ![k] = NoEntry]
  /\ UNCHANGED <<redis_client, supabase, svc, pipeline>>

\* The application changes the settings of a user: the rows of Supabase are
\* written by the clients of the application, not by these services.
SettingsChanged(u) ==
  /\ supabase.changes < MaxChanges
  /\ \E row \in SettingsRows(u) :
       /\ row # supabase.notification_settings[u]
       /\ supabase' = [supabase EXCEPT !.notification_settings[u] = row,
                                       !.changes = @ + 1]
  /\ UNCHANGED <<redis_client, redis, svc, pipeline>>

\* The user registers or drops a device.
TokensChanged(u) ==
  /\ supabase.changes < MaxChanges
  /\ \E rows \in TokenRows :
       /\ rows # supabase.push_tokens[u]
       /\ supabase' = [supabase EXCEPT !.push_tokens[u] = rows,
                                       !.changes = @ + 1]
  /\ UNCHANGED <<redis_client, redis, svc, pipeline>>

\* ----------------------------------------------------------- specifications
IdleRun ==
  [pc |-> "idle", src |-> MainQueue, read |-> "none", call |-> "none",
   original |-> MainQueue, stats |-> ZeroStats, ret |-> <<>>]

\* The store with the payloads of sequence q waiting in the main queue and
\* an empty dead-letter queue.
StoreOf(q) ==
  [n \in QueueNames |->
     IF n = MainQueue
     THEN {[id |-> k, payload |-> q[k]] : k \in 1..Len(q)}
     ELSE {}]

\* The service after construction (lines 22-50) over the queue contents q,
\* with k permits and batches of b messages.
ServiceConstructed(q, k, b) ==
  /\ store = StoreOf(q)
  /\ nextId = [n \in QueueNames |-> IF n = MainQueue THEN Len(q) + 1 ELSE 1]
  /\ leased = [n \in QueueNames |-> {}]
  /\ queue_name = MainQueue
  /\ concurrency = k
  /\ batch_size = b
  /\ posthog_client = "absent"
  /\ sem = k
  /\ run = [r \in Runs |-> IdleRun]
  /\ enq = NoCalls
  /\ is_running = FALSE
  /\ scheduler = NewScheduler
  /\ hist = NoHistory

\* The same, with no Redis and empty tables behind the services above.
Constructed(q, k, b) ==
  /\ ServiceConstructed(q, k, b)
  /\ redis_client = None
  /\ redis = EmptyRedis
  /\ supabase = NoRows
  /\ svc = NoSvcCall

\* Batches: MaxMsgs messages wait in the main queue, the service has fewer
\* permits than there are messages, a batch is one message or the whole
\* queue, and two calls of process_queue may overlap.
Init ==
  /\ \E q \in [1..MaxMsgs -> BatchPayloads], k \in 1..(MaxMsgs - 1),
        b \in {1, MaxMsgs} : Constructed(q, k, b)
  /\ tasks = <<>>

Next ==
  \/ \E r \in Runs : ProcessQueue(r)
  \/ \E i \in TaskIds : StartMessage(i)
  \/ \E i \in TaskIds : AcquirePermit(i)
  \/ \E i \in TaskIds : GatewayAnswers(i)
  \/ \E i \in TaskIds : BackoffElapsed(i)
  \/ \E r \in Runs : ReturnStats(r)

Spec == Init /\ [][Next]_vars

\* The event loop runs every coroutine that is ready: a coroutine of a
\* batch is started, a coroutine waiting at line 305 is resumed while a
\* permit is free, the gateway answers every request (the HTTP client gives
\* up after 30 seconds, line 376), every backoff sleep ends, and gather
\* resumes process_queue.  Nothing obliges a caller to call process_queue.
Scheduling ==
  /\ \A i \in 1..MaxMsgs :
       /\ WF_vars(i \in TaskIds /\ StartMessage(i))
       /\ WF_vars(i \in TaskIds /\ AcquirePermit(i))
       /\ WF_vars(i \in TaskIds /\ GatewayAnswers(i))
       /\ WF_vars(i \in TaskIds /\ BackoffElapsed(i))
  /\ \A r \in Runs : WF_vars(ReturnStats(r))

FairSpec == Spec /\ Scheduling

\* One message: a single message of any kind waits in the main queue.
MessageInit ==
  /\ \E p \in Payloads, k \in 1..MaxMsgs : Constructed(<<p>>, k, MaxMsgs)
  /\ tasks = <<>>

MessageNext ==
  \/ \E r \in Runs : ProcessQueue(r)
  \/ \E i \in TaskIds : StartMessage(i)
  \/ \E i \in TaskIds : GatewayAnswers(i)
  \/ \E i \in TaskIds : BackoffElapsed(i)
  \/ \E r \in Runs : ReturnStats(r)

MessageSpec == MessageInit /\ [][MessageNext]_vars

\* One send: a direct call of _send_notification is about to run, with any
\* retry_count and max_retries and either transport.
NoMessage == [id |-> 0, payload |-> json_dumps(Job(0))]

RetryCounts == 0..(DefaultMaxRetries + 1)

SendInit ==
  /\ \E k \in 1..MaxMsgs : Constructed(<<>>, k, MaxMsgs)
  /\ \E rc \in RetryCounts, mr \in RetryCounts, rest \in BOOLEAN :
       tasks = << NewTask("callA", NoMessage, rc, mr, rest) >>

SendNext ==
  \/ \E i \in TaskIds : CallSend(i)
  \/ \E i \in TaskIds : GatewayAnswers(i)
  \/ \E i \in TaskIds : BackoffElapsed(i)

SendSpec == SendInit /\ [][SendNext]_vars

\* One send with max_retries large enough for the cap of the delay to apply
\* (max_retries is a parameter of _send_notification, line 278).
LongMaxRetries == 7

BackoffInit ==
  /\ Constructed(<<>>, 1, MaxMsgs)
  /\ \E rc \in 0..1, mr \in {DefaultMaxRetries, LongMaxRetries}, rest \in BOOLEAN :
       tasks = << NewTask("callA", NoMessage, rc, mr, rest) >>

BackoffSpec == BackoffInit /\ [][SendNext]_vars

\* The gateway answers every request (the HTTP client gives up after 30
\* seconds, line 376) and every backoff sleep ends.
SendFairSpec == SendSpec /\ WF_vars(SendNext)

\* Dead-letter reprocessing: MaxMsgs messages wait in the dead-letter
\* queue (a job that may fail once more, a job at the limit, a text that is
\* no JSON), one job waits in the main queue, and process_dlq is called.
DlqPayloads ==
  {json_dumps(Job(1)), json_dumps(Job(DlqLimit)), GarbageText}

DlqInit ==
  /\ \E q \in [1..MaxMsgs -> DlqPayloads], k \in {1, MaxMsgs} :
       /\ store = [n \in QueueNames |->
                     IF n = MainQueue THEN StoreOf(<< json_dumps(Job(0)) >>)[n]
                     ELSE StoreOf(q)[MainQueue]]
       /\ nextId = [n \in QueueNames |->
                      IF n = MainQueue THEN 2 ELSE MaxMsgs + 1]
       /\ concurrency = k
       /\ sem = k
  /\ leased = [n \in QueueNames |-> {}]
  /\ queue_name = MainQueue
  /\ batch_size = MaxMsgs
  /\ posthog_client = "absent"
  /\ run = [r \in Runs |-> IdleRun]
  /\ enq = NoCalls
  /\ is_running = FALSE
  /\ scheduler = NewScheduler
  /\ hist = NoHistory
  /\ redis_client = None
  /\ redis = EmptyRedis
  /\ supabase = NoRows
  /\ svc = NoSvcCall
  /\ tasks = <<>>

DlqNext ==
  \/ \E r \in {"run1"} : ProcessDlq(r)
  \/ \E i \in TaskIds : StartMessage(i)
  \/ \E i \in TaskIds : AcquirePermit(i)
  \/ \E i \in TaskIds : GatewayAnswers(i)
  \/ \E i \in TaskIds : BackoffElapsed(i)
  \/ \E r \in Runs : ReturnStats(r)
  \/ \E r \in Runs : CancelDlq(r)

DlqSpec == DlqInit /\ [][DlqNext]_vars

\* Dead-letter reprocessing next to the regular processing: one job waits
\* in each queue, process_dlq and process_queue are each called once on
\* the same service, in any order and overlapping or not.
SwapInit ==
  /\ store = [n \in QueueNames |->
                IF n = MainQueue THEN StoreOf(<< json_dumps(Job(0)) >>)[n]
                ELSE StoreOf(<< json_dumps(Job(1)) >>)[MainQueue]]
  /\ nextId = [n \in QueueNames |-> 2]
  /\ concurrency \in 1..MaxMsgs
  /\ sem = concurrency
  /\ leased = [n \in QueueNames |-> {}]
  /\ queue_name = MainQueue
  /\ batch_size = MaxMsgs
  /\ posthog_client = "absent"
  /\ run = [r \in Runs |-> IdleRun]
  /\ enq = NoCalls
  /\ is_running = FALSE
  /\ scheduler = NewScheduler
  /\ hist = NoHistory
  /\ redis_client = None
  /\ redis = EmptyRedis
  /\ supabase = NoRows
  /\ svc = NoSvcCall
  /\ tasks = <<>>

SwapNext ==
  \/ ProcessDlq("run1")
  \/ ProcessQueue("run2")
  \/ \E i \in TaskIds : StartMessage(i)
  \/ \E i \in TaskIds : AcquirePermit(i)
  \/ \E i \in TaskIds : GatewayAnswers(i)
  \/ \E i \in TaskIds : BackoffElapsed(i)
  \/ \E r \in Runs : ReturnStats(r)

SwapSpec == SwapInit /\ [][SwapNext]_vars

\* The service with its analytics sink: one message of any kind waits in
\* the main queue, the sink is absent, working or failing, a producer
\* enqueues one notification, with or without recipients, and
\* process_queue runs.
SinkArguments ==
  {a \in Arguments : /\ a.title = "title" /\ a.body = "body"
                     /\ a.priority = "high"
                     /\ a.metadata = "metadata" /\ a.data = "data"}

SinkInit ==
  /\ \E p \in Payloads :
       /\ store = StoreOf(<<p>>)
       /\ nextId = [n \in QueueNames |-> IF n = MainQueue THEN 2 ELSE 1]
  /\ posthog_client \in PosthogClients
  /\ leased = [n \in QueueNames |-> {}]
  /\ queue_name = MainQueue
  /\ concurrency = MaxMsgs
  /\ batch_size = MaxMsgs
  /\ sem = MaxMsgs
  /\ run = [r \in Runs |-> IdleRun]
  /\ enq = NoCalls
  /\ is_running = FALSE
  /\ scheduler = NewScheduler
  /\ hist = NoHistory
  /\ redis_client = None
  /\ redis = EmptyRedis
  /\ supabase = NoRows
  /\ svc = NoSvcCall
  /\ tasks = <<>>

SinkNext ==
  \/ EnqueueFrom(SinkArguments, 1)
  \/ \E r \in {"run1"} : ProcessQueue(r)
  \/ \E i \in TaskIds : StartMessage(i)
  \/ \E i \in TaskIds : GatewayAnswers(i)
  \/ \E i \in TaskIds : BackoffElapsed(i)
  \/ \E r \in Runs : ReturnStats(r)

SinkSpec == SinkInit /\ [][SinkNext]_vars

\* Producers: the queue holds no message or one job, and producers call
\* enqueue_notification.
EnqueueInit ==
  /\ \E q \in {<<>>, << json_dumps(Job(0)) >>} : Constructed(q, 1, 1)
  /\ tasks = <<>>

EnqueueNext == Enqueue

EnqueueSpec == EnqueueInit /\ [][EnqueueNext]_vars

\* The scheduler: at most one message waits in the main queue, start() and
\* stop() are called in any order, and the ticks of the running scheduler
\* call process_queue.
SchedulerInit ==
  /\ \E q \in {<<>>} \cup [1..1 -> BatchPayloads] : Constructed(q, 1, 1)
  /\ tasks = <<>>

SchedulerNext ==
  \/ Start
  \/ Stop
  \/ \E r \in Runs : Tick(r)
  \/ \E i \in TaskIds : StartMessage(i)
  \/ \E i \in TaskIds : GatewayAnswers(i)
  \/ \E i \in TaskIds : BackoffElapsed(i)
  \/ \E r \in Runs : ReturnStats(r)

SchedulerSpec == SchedulerInit /\ [][SchedulerNext]_vars



\* The life of one job: a job enqueued with failure_count 0 waits in the
\* main queue; process_queue and process_dlq are called one after the
\* other, any number of times; the gateway delivers or answers with a
\* server error; every queue call may raise; a message left in its queue
\* becomes visible again.
LifeResponses ==
  {r \in BatchResponses :
     \/ r.http = "500"
     \/ r.http = "200" /\ \A n \in 1..Len(r.tickets) : r.tickets[n].status = "ok"}

MaxReads == DlqLimit + 2

LifeInit ==
  /\ Constructed(<<json_dumps(Job(0))>>, 1, 1)
  /\ tasks = <<>>

LifeNext ==
  \/ ProcessQueue("run1")
  \/ ProcessDlq("run1")
  \/ \E i \in TaskIds : StartMessage(i)
  \/ \E i \in TaskIds : GatewayAnswersFrom(i, LifeResponses)
  \/ ReturnStats("run1")
  \/ CallAgain("run1", MaxReads)
  \/ \E q \in QueueNames, id \in 1..MaxReads : Reappear(q, id)

LifeSpec == LifeInit /\ [][LifeNext]_vars

\* Double processing: one job waits in the main queue and two calls of
\* process_queue are made; the visibility timeout of the first read may
\* run out while its batch is in progress, so that the second call reads
\* the same message.
OverlapInit ==
  /\ \E k \in 1..MaxMsgs : Constructed(<< json_dumps(Job(0)) >>, k, 1)
  /\ tasks = <<>>

OverlapNext ==
  \/ \E r \in Runs : ProcessQueue(r)
  \/ \E i \in TaskIds : StartMessage(i)
  \/ \E i \in TaskIds : AcquirePermit(i)
  \/ \E i \in TaskIds : GatewayAnswersFrom(i, LifeResponses)
  \/ \E r \in Runs : ReturnStats(r)
  \/ \E q \in QueueNames, id \in 1..MaxReads : Reappear(q, id)

OverlapSpec == OverlapInit /\ [][OverlapNext]_vars

\* CacheService with or without Redis, every call of Redis and of Supabase
\* failing or not: each user has settings or none, and a token or none.
RedisClients == {None, "client"}

Tables ==
  {[notification_settings |-> [u \in UserIds |-> IF u = "u1" THEN s1 ELSE s2],
    push_tokens           |-> [u \in UserIds |-> IF u = "u1" THEN t1 ELSE t2],
    profiles              |-> [u \in UserIds |-> NoRecord],
    changes               |-> 0] :
     s1 \in {NoRecord, SettingsRow("u1", TRUE, FALSE)},
     s2 \in {NoRecord, SettingsRow("u2", FALSE, TRUE)},
     t1 \in {<<>>, <<"tokA", "">>}, t2 \in {<<>>, <<"tokC">>}}

CacheInit ==
  /\ ServiceConstructed(<<>>, 1, 1)
  /\ tasks = <<>>
  /\ redis_client \in RedisClients
  /\ redis = EmptyRedis
  /\ supabase \in Tables
  /\ svc = NoSvcCall

CacheNext ==
  \/ CallGetNotificationSettings
  \/ CallGetPushTokens
  \/ CallGetNotificationSettingsBatch
  \/ CallGetPushTokensBatch
  \/ \E k \in CacheKeys : Expire(k)
  \/ \E u \in UserIds : SettingsChanged(u)
  \/ \E u \in UserIds : TokensChanged(u)

CacheSpec == CacheInit /\ [][CacheNext]_vars

\* The filter of the recipients over the same cache and tables.
FilterNext ==
  \/ CallFilter
  \/ \E k \in CacheKeys : Expire(k)
  \/ \E u \in UserIds : SettingsChanged(u)

FilterSpec == CacheInit /\ [][FilterNext]_vars

\* Friend requests from u1 to u2: u1 has a profile (with or without a
\* username) or none, u2 has friend_requests enabled, disabled or no
\* settings, and a device or none.
FriendTables ==
  {[notification_settings |-> [u \in UserIds |-> IF u = "u2" THEN s2 ELSE NoRecord],
    push_tokens           |-> [u \in UserIds |-> IF u = "u2" THEN t2 ELSE <<>>],
    profiles              |-> [u \in UserIds |-> IF u = "u1" THEN p1 ELSE NoRecord],
    changes               |-> 0] :
     s2 \in {NoRecord, SettingsRow("u2", TRUE, TRUE),
             SettingsRow("u2", FALSE, TRUE), SettingsRow("u2", TRUE, FALSE)},
     t2 \in {<<>>, <<"tokC">>},
     p1 \in {NoRecord, Profile("alice", None), Profile(None, None)}}

FriendInit ==
  /\ ServiceConstructed(<<>>, 1, 1)
  /\ tasks = <<>>
  /\ redis_client \in RedisClients
  /\ redis = EmptyRedis
  /\ supabase \in FriendTables
  /\ svc = NoSvcCall

FriendNext ==
  \/ CallSendFriendRequest
  \/ \E k \in CacheKeys : Expire(k)
  \/ \E u \in UserIds : SettingsChanged(u)

FriendSpec == FriendInit /\ [][FriendNext]_vars

\* The entries webhook over the same tables.
WebhookNext ==
  \/ CallEntryWebhook
  \/ \E k \in CacheKeys : Expire(k)

WebhookSpec == FriendInit /\ [][WebhookNext]_vars

\* =================================================================== claims
\* What the claims look at.
InFlight == {i \in TaskIds : tasks[i].pc = "inflight"}
Waiting == {i \in TaskIds : tasks[i].pc = "waiting"}
Returned(r) == run[r].pc = "returned"
StatsReturned(r) == run[r].ret[1]
Ids(q) == {m.id : m \in store[q]}
\* The job of task i as _process_message decoded it.
JobOf(i) == DecodeMessage(tasks[i].message).obj
CountOf(i) == Get(JobOf(i), "failure_count", 0)
\* The send of task i has returned False and _handle_failure has run.
FailedSend(i) == tasks[i].pc = "done" /\ tasks[i].result = "false"
\* The sends called directly.
Sends == {i \in TaskIds : tasks[i].caller \notin Runs}
Finished(i) == tasks[i].pc = "done"
RateLimited(resp) ==
  \/ resp.via = "rest" /\ resp.http = "429"
  \/ resp.via = "sdk" /\ resp.sdk = "server_429"
AllOk(resp) ==
  \/ /\ resp.via = "rest"
     /\ resp.http = "200"
     /\ resp.json \in {"data", "list", "object"}
     /\ \A n \in 1..Len(resp.tickets) : resp.tickets[n] = [isdict |-> TRUE, status |-> "ok"]
  \/ resp.via = "sdk" /\ resp.sdk = "ok"
\* A gateway error other than a rate limit: an error status, no answer, a
\* ticket that is not ok, a body that cannot be read, an SDK exception.
OtherError(resp) ==
  \/ /\ resp.via = "rest"
     /\ \/ resp.http \in {"400", "500", "network_error"}
        \/ resp.json \in {"invalid", "nodata"}
        \/ \E n \in 1..Len(resp.tickets) :
             resp.tickets[n].isdict /\ resp.tickets[n].status # "ok"
  \/ resp.via = "sdk" /\ resp.sdk \in {"server_error", "not_registered", "exception"}

\* C1: at every instant at most `concurrency` gateway requests are in
\* flight, whatever the size of the batch and also when two calls of
\* process_queue overlap on the same service.
C1_ConcurrencyBound == Cardinality(InFlight) <= concurrency

\* C1 witness: every permit is in use by a request in flight while another
\* message of a batch waits for a permit.
C1_Witness ==
  /\ Cardinality(InFlight) = concurrency
  /\ Waiting # {}

\* C2 (as claimed): once process_queue has returned, every message it read
\* is gone from the queue it was read from (deleted, or moved to the DLQ).
C2_AllResolvedOnReturn ==
  \A r \in Runs : Returned(r) =>
    \A i \in TasksOf(r) : tasks[i].msg_id \notin Ids(run[r].src)

\* C3 (as claimed): the stats process_queue returns satisfy
\* processed = succeeded + failed.
C3_StatsPartition ==
  \A r \in Runs : Returned(r) =>
    StatsReturned(r).processed
      = StatsReturned(r).succeeded + StatsReturned(r).failed

\* C4 (as claimed): a message whose send failed is moved to the DLQ when
\* failure_count + 1 <= dlq_limit (moved_to_dlq incremented, discarded not)
\* and deleted without a DLQ write otherwise (discarded incremented,
\* moved_to_dlq not); failed is incremented by one in both cases.
C4_ThresholdAsClaimed ==
  \A i \in TaskIds : FailedSend(i) =>
    LET st == run[tasks[i].caller].stats
    IN  /\ st.failed = 1
        /\ IF CountOf(i) + 1 <= DlqLimit
           THEN /\ tasks[i].msg_id \notin Ids(MainQueue)
                /\ store[DeadLetterQueue] # {}
                /\ st.moved_to_dlq = 1 /\ st.discarded = 0
           ELSE /\ tasks[i].msg_id \notin Ids(MainQueue)
                /\ store[DeadLetterQueue] = {}
                /\ st.discarded = 1 /\ st.moved_to_dlq = 0

\* C4 (amended): for a message whose send failed, failed is incremented by
\* one in every case.  With failure_count + 1 <= dlq_limit the message is
\* moved to the DLQ (moved_to_dlq incremented) and otherwise it is deleted
\* with no DLQ write (discarded incremented), provided the queue calls of
\* _handle_failure do not raise; when the delete or the DLQ write raises,
\* neither moved_to_dlq nor discarded is incremented.  Never is a message
\* over the limit written to the DLQ, nor one within the limit counted as
\* discarded.
C4_Threshold ==
  \A i \in TaskIds : FailedSend(i) =>
    LET st     == run[tasks[i].caller].stats
        raised == tasks[i].outcome \in {"error", "lost"}
    IN  /\ st.failed = 1
        /\ IF CountOf(i) + 1 <= DlqLimit
           THEN /\ st.discarded = 0
                /\ IF raised
                   THEN st.moved_to_dlq = 0
                   ELSE /\ tasks[i].msg_id \notin Ids(MainQueue)
                        /\ store[DeadLetterQueue] # {}
                        /\ st.moved_to_dlq = 1
           ELSE /\ st.moved_to_dlq = 0
                /\ store[DeadLetterQueue] = {}
                /\ IF raised
                   THEN st.discarded = 0
                   ELSE /\ tasks[i].msg_id \notin Ids(MainQueue)
                        /\ st.discarded = 1

\* C4 witness: a message exactly at the boundary (failure_count + 1 =
\* dlq_limit) has failed and has been moved to the DLQ.
C4_Witness ==
  \E i \in TaskIds :
    /\ FailedSend(i)
    /\ CountOf(i) + 1 = DlqLimit
    /\ run[tasks[i].caller].stats.moved_to_dlq = 1
    /\ store[DeadLetterQueue] # {}

\* C5: the payload written to the DLQ for a failed message carries
\* failure_count = f + 1, f being the count read (0 when absent), and every
\* other field of the payload read, unchanged, and no further field.
C5_DlqPayload ==
  \A i \in TaskIds : FailedSend(i) =>
    /\ tasks[i].outcome = "moved" => store[DeadLetterQueue] # {}
    /\ \A m \in store[DeadLetterQueue] :
         LET w == json_loads(m.payload)
         IN  /\ ~w.raised /\ w.isdict
             /\ DOMAIN w.obj = DOMAIN JobOf(i) \cup {"failure_count"}
             /\ w.obj["failure_count"] = CountOf(i) + 1
             /\ \A k \in DOMAIN JobOf(i) \ {"failure_count"} :
                  w.obj[k] = JobOf(i)[k]

\* C5 witness: a job read without a failure_count has failed and is on the
\* DLQ.
C5_Witness ==
  \E i \in TaskIds :
    /\ FailedSend(i)
    /\ "failure_count" \notin DOMAIN JobOf(i)
    /\ store[DeadLetterQueue] # {}

\* C6 (as claimed): a message that fails does not abort its batch: when
\* process_queue returns, every other message of the batch has been
\* processed to its outcome and counted in the stats returned.
C6_NoAbort ==
  \A r \in Runs : Returned(r) =>
    LET others == {i \in TasksOf(r) : tasks[i].pc # "raised"}
    IN  /\ \A i \in others : tasks[i].pc = "done"
        /\ StatsReturned(r).succeeded + StatsReturned(r).failed
             = Cardinality(others)

\* C7: a send over the REST API returns True only if every ticket of the
\* answer is ok; one ticket that is not ok makes it return False.
C7_AllTicketsOk ==
  \A i \in Sends : (Finished(i) /\ tasks[i].resp.via = "rest") =>
    LET resp == tasks[i].resp
        bad  == \E n \in 1..Len(resp.tickets) :
                  resp.tickets[n].isdict /\ resp.tickets[n].status # "ok"
    IN  /\ tasks[i].result = "true" => resp.http = "200" /\ ~bad
        /\ bad => tasks[i].result = "false"

\* C7 witness: an answer with one ticket ok and one in error has made the
\* send return False.
C7_Witness ==
  \E i \in Sends :
    /\ Finished(i)
    /\ tasks[i].result = "false"
    /\ tasks[i].resp.via = "rest"
    /\ tasks[i].resp.http = "200"
    /\ tasks[i].resp.tickets = <<[isdict |-> TRUE, status |-> "ok"],
                                 [isdict |-> TRUE, status |-> "error"]>>

\* The most requests a send started with retry_count rc may make.
RequestBound(rc, mr) == IF rc < mr THEN mr - rc + 1 ELSE 1

\* The state part of C8: the number of requests of a send, while it runs and
\* once it has ended.
C8_Bounded ==
  \A i \in Sends :
    LET t == tasks[i]
    IN  /\ t.requests <= RequestBound(t.retry0, t.max_retries)
        /\ (Finished(i) /\ RateLimited(t.resp)) =>
             /\ t.result = "false"
             /\ t.requests = RequestBound(t.retry0, t.max_retries)
        /\ (Finished(i) /\ RateLimited(t.resp) /\ t.retry0 = 0) =>
             t.requests = t.max_retries + 1
        /\ (Finished(i) /\ RateLimited(t.resp) /\ t.retry0 = t.max_retries) =>
             t.requests = 1
        /\ (Finished(i) /\ AllOk(t.resp) /\ t.sleeps = 1) =>
             t.result = "true" /\ t.requests = 2

\* C8: a send ends, after a bounded number of gateway requests: answered by
\* a rate limit every time it makes max_retries + 1 requests when started
\* with retry_count 0 and one request when started with retry_count =
\* max_retries, and returns False; a rate limit followed by a success gives
\* True after two requests.
C8_BoundedRequests == []C8_Bounded /\ <>(\A i \in Sends : Finished(i))

\* C8 witness: a send started with retry_count 0 and the default
\* max_retries has been answered by a rate limit every time and has ended.
C8_Witness ==
  \E i \in Sends :
    /\ Finished(i)
    /\ tasks[i].retry0 = 0
    /\ tasks[i].max_retries = DefaultMaxRetries
    /\ RateLimited(tasks[i].resp)
    /\ tasks[i].requests = DefaultMaxRetries + 1
    /\ tasks[i].result = "false"

C10_NeverRaises ==
  \A i \in Sends :
    /\ tasks[i].result # "raised"
    /\ Finished(i) =>
         /\ tasks[i].result \in {"true", "false"}
         /\ (OtherError(tasks[i].resp) \/ RateLimited(tasks[i].resp)) =>
              tasks[i].result = "false"

\* C10 witness: a send whose answer had a body that is no JSON has ended
\* with False.
C10_Witness ==
  \E i \in Sends :
    /\ Finished(i)
    /\ tasks[i].resp.via = "rest"
    /\ tasks[i].resp.json = "invalid"
    /\ tasks[i].result = "false"

\* ------------------------------------------------- enqueue_notification
\* A step that is one call of enqueue_notification.
EnqueueStep == enq'.calls = enq.calls + 1
\* The call lacks a title, a body or recipients.
LacksField(call) ==
  call.title = "" \/ call.body = "" \/ call.recipients = <<>>
\* The job a valid call is to put in the queue.
JobAsked(call) ==
  [title |-> call.title, body |-> call.body, recipients |-> call.recipients,
   priority |-> IF call.priority \in {"default", "normal", "high"}
                THEN call.priority ELSE "default",
   failure_count |-> 0,
   metadata |-> IF call.metadata = None THEN EmptyDict ELSE call.metadata,
   data |-> IF call.data = None THEN EmptyDict ELSE call.data,
   created_at |-> "created_at"]
Decoded(obj) == [raised |-> FALSE, isdict |-> TRUE, obj |-> obj]

\* C11: a call of enqueue_notification with an empty title, body or
\* recipients returns False, makes no send request, and leaves both queues
\* as they were.
C11_RejectsEmpty ==
  [][EnqueueStep /\ LacksField(enq')
       => /\ enq'.ret = "false"
          /\ enq'.requests = <<>>
          /\ store' = store]_vars

\* A call with a title and a body but no recipients has returned False.
C11_Witness ==
  /\ enq.calls > 0
  /\ enq.title # "" /\ enq.body # "" /\ enq.recipients = <<>>
  /\ enq.ret = "false"

\* C12: a valid call makes exactly one send request, to the main queue,
\* whose payload decodes to the caller's title, body, recipients, metadata
\* and data with failure_count 0 and the priority given, or "default" when
\* the priority given is none of default/normal/high; the dead-letter queue
\* is not written, and a successful send adds exactly that one message to
\* the main queue.
C12_ValidWrite ==
  [][EnqueueStep /\ ~LacksField(enq')
       => /\ Len(enq'.requests) = 1
          /\ enq'.requests[1].queue_name = MainQueue
          /\ DecodeMessage(enq'.requests[1].message) = Decoded(JobAsked(enq'))
          /\ store'[DeadLetterQueue] = store[DeadLetterQueue]
          /\ store[MainQueue] \subseteq store'[MainQueue]
          /\ Cardinality(store'[MainQueue] \ store[MainQueue]) <= 1
          /\ \A m \in store'[MainQueue] \ store[MainQueue] :
               m.payload = enq'.requests[1].message
          /\ enq'.ret = "true" => store'[MainQueue] # store[MainQueue]]_vars

\* A call with a priority outside the three has put a job of priority
\* "default" in the main queue.
C12_Witness ==
  /\ enq.calls > 0
  /\ enq.priority = "urgent"
  /\ enq.ret = "true"
  /\ \E m \in store[MainQueue] :
       /\ m.payload = enq.requests[1].message
       /\ DecodeMessage(m.payload).obj.priority = "default"

\* C13: enqueue_notification never raises; it returns True exactly when a
\* message was written, and False when the validation or the queue write
\* failed.
C13_NeverThrows ==
  [][EnqueueStep
       => /\ enq'.ret \in {"true", "false"}
          /\ enq'.ret = "true" <=> store' # store
          /\ LacksField(enq') => enq'.ret = "false"]_vars

\* A valid call whose queue write failed has returned False.
C13_Witness ==
  /\ enq.calls > 0
  /\ ~LacksField(enq)
  /\ Len(enq.requests) = 1
  /\ enq.ret = "false"
  /\ \A m \in store[MainQueue] : m.payload # enq.requests[1].message

\* ------------------------------------------------------- _process_message
\* The payload of task i is an object without a non-empty title, body or
\* recipients list.
Lacking(i) ==
  LET d == DecodeMessage(tasks[i].message)
  IN  /\ ~d.raised
      /\ d.isdict
      /\ \/ "title" \notin DOMAIN d.obj \/ d.obj.title = ""
         \/ "body" \notin DOMAIN d.obj \/ d.obj.body = ""
         \/ "recipients" \notin DOMAIN d.obj \/ d.obj.recipients = <<>>
\* _process_message has run for task i, a message of a batch.
Handled(i) == tasks[i].caller \in Runs /\ tasks[i].pc # "new"
SourceOf(i) == run[tasks[i].caller].src
StatsOf(i) == run[tasks[i].caller].stats

SendSucceeds(i) ==
  /\ tasks[i].caller \in Runs
  /\ tasks[i].pc # "done"
  /\ tasks'[i].pc = "done"
  /\ tasks'[i].result = "true"
\* The step removes the message of task i from its queue and nothing else.
DeletesOnly(i) ==
  /\ tasks[i].msg_id \in Ids(SourceOf(i))
  /\ store' = [store EXCEPT ![SourceOf(i)] = {m \in @ : m.id # tasks[i].msg_id}]
\* The step adds one to counter key of the run of task i and nothing else.
CountsOnly(i, key) ==
  run'[tasks[i].caller].stats =
    [StatsOf(i) EXCEPT ![key] = @ + 1]

\* C15 as stated: when the send of a message succeeds, exactly that message
\* is deleted from the source queue, succeeded is incremented by one, no
\* DLQ write is made and the job is not modified or re-enqueued.
C15_SuccessAsClaimed ==
  [][\A i \in TaskIds :
       SendSucceeds(i)
         => /\ DeletesOnly(i)
            /\ CountsOnly(i, "succeeded")
            /\ nextId' = nextId
            /\ tasks'[i].message = tasks[i].message]_vars

\* C15, amended: the same when the delete call does not raise; when it
\* raises, the store is unchanged and failed is incremented instead.
C15_Success ==
  [][\A i \in TaskIds :
       SendSucceeds(i)
         => /\ tasks'[i].outcome \in {"succeeded", "error"}
            /\ tasks'[i].outcome = "succeeded"
                 => DeletesOnly(i) /\ CountsOnly(i, "succeeded")
            /\ tasks'[i].outcome = "error"
                 => store' = store /\ CountsOnly(i, "failed")
            /\ nextId' = nextId
            /\ tasks'[i].message = tasks[i].message]_vars

\* A message of a batch has been sent and deleted while another message
\* of the queue is still there.
C15_Witness ==
  \E i \in TaskIds :
    /\ tasks[i].caller \in Runs
    /\ tasks[i].result = "true"
    /\ tasks[i].outcome = "succeeded"
    /\ tasks[i].msg_id \notin Ids(SourceOf(i))
    /\ Ids(SourceOf(i)) # {}
    /\ StatsOf(i).succeeded = 1

\* ------------------------------------------------------------ process_queue
\* C16: a process_queue whose read returns no messages returns at once with
\* all five counters zero and starts no message coroutine, so that it makes
\* no gateway request, no delete and no DLQ write.
C16_EmptyRead ==
  \A r \in Runs :
    run[r].read = "empty"
      => /\ Returned(r)
         /\ run[r].ret = << [processed |-> 0, succeeded |-> 0, failed |-> 0,
                             moved_to_dlq |-> 0, discarded |-> 0] >>
         /\ TasksOf(r) = {}

\* A process_queue has read an empty batch and returned.
C16_Witness ==
  \E r \in Runs : run[r].read = "empty" /\ Returned(r) /\ Visible(run[r].src) = {}

\* C17: a process_queue whose read raises returns with all five counters
\* zero and starts no message coroutine (no gateway request, no delete, no
\* DLQ write), whatever waits in the queue.
C17_FailedRead ==
  \A r \in Runs :
    run[r].read = "failed"
      => /\ Returned(r)
         /\ StatsReturned(r) = [processed |-> 0, succeeded |-> 0, failed |-> 0,
                                moved_to_dlq |-> 0, discarded |-> 0]
         /\ \A i \in TaskIds : tasks[i].caller # r

\* The read of a process_queue has failed with messages waiting.
C17_Witness ==
  \E r \in Runs :
    /\ run[r].read = "failed"
    /\ Returned(r)
    /\ Visible(run[r].src) # {}

\* ---------------------------------------------------- NotificationScheduler
LastCall == hist.calls[Len(hist.calls)]
Registered == {n \in 1..Len(scheduler.jobs) : scheduler.jobs[n] = JobId}
\* A step that is a call of stop(), and one that is a tick.
StopStep ==
  /\ Len(hist'.calls) = Len(hist.calls) + 1
  /\ hist'.calls[Len(hist'.calls)] = "stop"
TickStep == Len(hist'.ticks) = Len(hist.ticks) + 1

\* C18: after a start() that no stop() has followed, however many start()
\* calls came before it, exactly one recurring job is registered, the
\* underlying scheduler is running and has been started once for each
\* time it was shut down plus one, and is_running is True.
C18_StartIdempotent ==
  (hist.calls # <<>> /\ LastCall = "start")
    => /\ is_running
       /\ scheduler.state = "running"
       /\ Len(scheduler.jobs) = 1
       /\ Cardinality(Registered) = 1
       /\ hist.starts = hist.shutdowns + 1

\* start() has been called twice in a row.
C18_Witness ==
  /\ Len(hist.calls) >= 2
  /\ LastCall = "start"
  /\ hist.calls[Len(hist.calls) - 1] = "start"
  /\ is_running

\* C19 as stated: stop() on a running scheduler returns with no batch in
\* flight, is_running False and the notification service shut down; no
\* tick calls process_queue while the scheduler is stopped; stop() on a
\* scheduler that is not running changes nothing.
C19_StopDrains ==
  [][/\ (StopStep /\ is_running)
          => /\ ~is_running'
             /\ hist'.service_shutdowns = hist.service_shutdowns + 1
             /\ \A r \in Runs : run'[r].pc \in {"idle", "returned", "raised"}
     /\ (StopStep /\ ~is_running)
          => UNCHANGED <<is_running, scheduler, store, run, tasks, sem>>
     /\ ~is_running => ~TickStep]_vars

\* C20: an exception raised inside a tick is caught by _process_queue_job
\* and does not leave it; the tick changes neither is_running nor the
\* scheduler, whose recurring job stays registered, so later ticks fire.
C20_TickErrorCaught ==
  [][TickStep
       => /\ hist'.ticks[Len(hist'.ticks)] \in {"caught", "called"}
          /\ is_running' = is_running
          /\ scheduler' = scheduler
          /\ scheduler'.state = "running"
          /\ Cardinality(Registered) = 1]_vars

\* A tick has called process_queue after the tick before it raised.
C20_Witness ==
  /\ is_running
  /\ \E n \in 1..(Len(hist.ticks) - 1) :
       hist.ticks[n] = "caught" /\ hist.ticks[n + 1] = "called"
  /\ \E r \in Runs : run[r].pc = "raised"
  /\ \E r \in Runs : run[r].pc \in {"gather", "returned"}

\* --------------------------------------------------------------- process_dlq
\* A step in which _process_message ends for task i.
Finishing(i) == tasks[i].pc # "done" /\ tasks'[i].pc = "done"
\* The outcomes of _process_message that take the message off its queue.
Removing == {"succeeded", "invalid", "moved", "lost", "discarded"}

\* C21 as stated: a process_dlq reads the dead-letter queue; each of its
\* messages that is delivered, discarded or escalated is deleted from the
\* dead-letter queue, an escalated one being written back to the
\* dead-letter queue with failure_count + 1; the main queue is untouched;
\* and when the call has ended queue_name is what it was before the call.
C21_DlqPipeline ==
  [][/\ store'[MainQueue] = store[MainQueue]
     /\ \A r \in Runs :
          run'[r].call = "process_dlq"
            => /\ run'[r].src = DeadLetterQueue
               /\ run'[r].pc \in {"returned", "cancelled"}
                    => queue_name' = run'[r].original
     /\ \A i \in TaskIds :
          Finishing(i)
            => /\ tasks'[i].outcome \in Removing
                    => tasks[i].msg_id \notin {m.id : m \in store'[DeadLetterQueue]}
               /\ tasks'[i].outcome = "moved"
                    => \E m \in store'[DeadLetterQueue] \ store[DeadLetterQueue] :
                         DecodeMessage(m.payload).obj.failure_count = CountOf(i) + 1]_vars

\* -------------------------------------------------------- observability sink
\* The payload of task i decodes to an object.
IsJob(i) ==
  LET d == DecodeMessage(tasks[i].message) IN ~d.raised /\ d.isdict
\* What enqueue_notification does with the arguments of the last call when
\* the queue write succeeds or not (sendOk) and the sink is `client`.
EnqueueAgain(sendOk, client) ==
  EnqueueNotification(store, nextId, queue_name, enq.title, enq.body,
                      enq.recipients, enq.priority, enq.metadata, enq.data,
                      sendOk, client)
\* What _process_message does for task i after its send gave `result`, and
\* when it discards the message as invalid, with the sink `client`.
FinishAgain(i, result, delOk, dlqOk, client) ==
  WithSink(AfterSend(store, nextId, StatsOf(i), queue_name, tasks[i].msg_id,
                     JobOf(i), result, delOk, dlqOk), client)
DiscardAgain(i, delOk, client) ==
  WithSink(DiscardInvalid(store, StatsOf(i), queue_name, tasks[i].msg_id, delOk),
           client)

\* C22: with the same arguments, the same queue responses and the same
\* gateway result, enqueue_notification's return value and queue write,
\* the stats, deletes and DLQ writes of _process_message and the way
\* process_queue ends are the same whether the sink is absent, works or
\* raises on every call; with any sink no exception of it leaves a call.
C22_SinkNeutral ==
  /\ enq.calls > 0
       => /\ enq.ret # "raised"
          /\ \A c \in PosthogClients, sendOk \in BOOLEAN :
               EnqueueAgain(sendOk, c) = EnqueueAgain(sendOk, "absent")
  /\ \A i \in TaskIds :
       /\ tasks[i].outcome # "sink_raised"
       /\ (tasks[i].caller \in Runs /\ IsJob(i))
            => \A c \in PosthogClients, delOk \in BOOLEAN, dlqOk \in BOOLEAN :
                 /\ \A result \in {"true", "false", "raised"} :
                      FinishAgain(i, result, delOk, dlqOk, c)
                        = FinishAgain(i, result, delOk, dlqOk, "absent")
                 /\ DiscardAgain(i, delOk, c) = DiscardAgain(i, delOk, "absent")
  /\ \A r \in Runs : run[r].pc # "raised"
  /\ \A c \in PosthogClients, raised \in BOOLEAN :
       ProcessQueueEnds(raised, c) = ProcessQueueEnds(raised, "absent")

\* With a sink that raises on every call, a notification has been enqueued
\* and a message has been delivered and deleted.
C22_Witness ==
  /\ posthog_client = "raises"
  /\ enq.calls > 0
  /\ enq.ret = "true"
  /\ \E i \in TaskIds :
       /\ tasks[i].outcome = "succeeded"
       /\ StatsOf(i).succeeded = 1 /\ StatsOf(i).failed = 0

\* ------------------------------------------------------- the backoff delay
SleepCalls(i) == tasks[i].sleep_calls

\* The delay d is min(2^retry_count + jitter, 60) for a jitter of [0, 1].
AsStated(retry_count, d) ==
  \/ d = MaxDelay /\ (2 ^ retry_count + 1) * Scale >= MaxDelay
  \/ /\ d < MaxDelay
     /\ (2 ^ retry_count) * Scale <= d
     /\ d <= (2 ^ retry_count + 1) * Scale

\* C23: the delay slept before retry number retry_count is
\* min(2^retry_count + jitter, 60) with jitter in [0, 1]; every delay is at
\* most 60 seconds, the delays of one send belong to consecutive retry
\* counts, and a delay below the cap is longer than the one before it.
C23_Backoff ==
  \A i \in Sends :
    /\ \A n \in 1..Len(SleepCalls(i)) :
         /\ SleepCalls(i)[n].retry_count = tasks[i].retry0 + n - 1
         /\ SleepCalls(i)[n].retry_count < tasks[i].max_retries
         /\ SleepCalls(i)[n].delay <= MaxDelay
         /\ AsStated(SleepCalls(i)[n].retry_count, SleepCalls(i)[n].delay)
    /\ \A n \in 1..(Len(SleepCalls(i)) - 1) :
         SleepCalls(i)[n + 1].delay < MaxDelay
           => SleepCalls(i)[n].delay < SleepCalls(i)[n + 1].delay

\* Every attempt of a send with max_retries = 7 was rate limited: seven
\* delays were slept, the last one cut to the cap, and the send gave up.
C23_Witness ==
  \E i \in Sends :
    /\ tasks[i].retry0 = 0
    /\ tasks[i].max_retries = LongMaxRetries
    /\ Len(SleepCalls(i)) = LongMaxRetries
    /\ SleepCalls(i)[LongMaxRetries].delay = MaxDelay
    /\ SleepCalls(i)[LongMaxRetries - 1].delay < MaxDelay
    /\ FailedSend(i)

\* ------------------------------------------------------------- CacheService
CacheStep == svc'.calls = svc.calls + 1
SingleStep(op) == CacheStep /\ svc'.op = op
User == svc'.user_ids[1]

\* Redis and Supabase answer every request of the call.
Answering ==
  redis_client # None /\ svc'.readOk /\ svc'.dbOk /\ Range(svc'.user_ids) \subseteq svc'.wok

\* The value held under key k, and the entry a write with the TTL of the
\* service leaves there.
Cached(k) == redis[k].value.obj
Stored(k, kind, value) ==
  /\ redis'[k] = [set |-> TRUE, ttl |-> CacheTtl,
                  value |-> [enc |-> "text", kind |-> kind, obj |-> value]]
  /\ \A other \in CacheKeys \ {k} : redis'[other] = redis[other]

\* The tokens of the rows of user u that hold one, in the order of the rows.
TokensOf(u) == SelectSeq(supabase.push_tokens[u], LAMBDA t : t # "")

\* C27: with Redis and Supabase answering, get_notification_settings and
\* get_push_tokens are cache-aside.  On a hit the cached value is returned
\* and Supabase is not queried; on a miss the value of Supabase is returned
\* and written under the key of the user with TTL cache_ttl; settings that
\* are not found are returned as None and not cached; an empty token list
\* is cached.
C27_CacheAside ==
  [][ /\ SingleStep("get_notification_settings") /\ Answering
        => LET k == CacheKey("notification_settings", User)
               row == supabase.notification_settings[User]
           IN  /\ ~svc'.raised
               /\ redis[k].set
                    => svc'.ret = Cached(k) /\ svc'.queries = 0 /\ redis' = redis
               /\ ~redis[k].set /\ row = NoRecord
                    => svc'.ret = NoRecord /\ redis' = redis
               /\ ~redis[k].set /\ row # NoRecord
                    => svc'.ret = row /\ Stored(k, "object", row)
      /\ SingleStep("get_push_tokens") /\ Answering
        => LET k == CacheKey("push_tokens", User)
           IN  /\ ~svc'.raised
               /\ redis[k].set
                    => svc'.ret = Cached(k) /\ svc'.queries = 0 /\ redis' = redis
               /\ ~redis[k].set
                    => svc'.ret = TokensOf(User)
                       /\ Stored(k, "array", TokensOf(User))
    ]_vars

\* The settings of a user were read twice and changed in between: the
\* second call returned the cached row, which Supabase no longer holds, and
\* made no query.
C27_Witness ==
  /\ svc.calls = 2
  /\ svc.op = "get_notification_settings"
  /\ redis_client # None /\ svc.readOk /\ svc.dbOk
  /\ svc.queries = 0
  /\ svc.ret # NoRecord
  /\ svc.ret # supabase.notification_settings[svc.user_ids[1]]
  /\ svc.ret = redis[CacheKey("notification_settings", svc.user_ids[1])].value.obj

\* Redis fails the call for user u: there is no client, the read raises, or
\* the key is missing and the write of the value raises.
RedisFails(prefix, u) ==
  \/ redis_client = None
  \/ ~svc'.readOk
  \/ ~redis[CacheKey(prefix, u)].set /\ u \notin svc'.wok

RowOf(u) == supabase.notification_settings[u]

\* C28: no getter of CacheService raises, whatever Redis and Supabase do;
\* and for a user for whom Redis fails (no client, the read raises, the
\* write raises) each getter returns what Supabase holds: the row or None
\* and the token list for the single getters, the entry of the user (no
\* entry without a row) for the batch getters.
C28_RedisErrors ==
  [][ CacheStep =>
        /\ ~svc'.raised
        /\ svc'.dbOk =>
             /\ svc'.op = "get_notification_settings"
                  /\ RedisFails("notification_settings", User)
                  => svc'.ret = RowOf(User)
             /\ svc'.op = "get_push_tokens" /\ RedisFails("push_tokens", User)
                  => svc'.ret = TokensOf(User)
             /\ svc'.op = "get_notification_settings_batch"
                  => \A u \in Range(svc'.user_ids) :
                       RedisFails("notification_settings", u)
                         => IF RowOf(u) = NoRecord
                            THEN u \notin DOMAIN svc'.ret
                            ELSE u \in DOMAIN svc'.ret /\ svc'.ret[u] = RowOf(u)
             /\ svc'.op = "get_push_tokens_batch"
                  => \A u \in Range(svc'.user_ids) :
                       RedisFails("push_tokens", u)
                         => u \in DOMAIN svc'.ret /\ svc'.ret[u] = TokensOf(u)
    ]_vars

\* A batch call whose mget raised, while Redis held settings of u1 that
\* Supabase no longer holds: the call returned the row of Supabase.
C28_Witness ==
  /\ svc.calls = 2
  /\ svc.op = "get_notification_settings_batch"
  /\ svc.user_ids = <<"u2", "u1">>
  /\ redis_client # None /\ ~svc.readOk /\ svc.dbOk /\ svc.wok = {}
  /\ redis[CacheKey("notification_settings", "u1")].set
  /\ redis[CacheKey("notification_settings", "u1")].value.obj
       # supabase.notification_settings["u1"]
  /\ "u1" \in DOMAIN svc.ret
  /\ svc.ret["u1"] = supabase.notification_settings["u1"]

\* ------------------------------------------------------------- recipients
\* The settings record of user u that the lookup of the call gave, if any.
HasRecord(u) == u \in DOMAIN svc.settings_dict.ret
Setting(u) == svc.settings_dict.ret[u][svc.notification_type]

\* C24: _filter_recipients_by_notification_settings returns, in the order
\* of the input, exactly the users whose settings record (as the lookup
\* gave it) has the notification type enabled or who have no record; no
\* user whose setting is False is returned; when the lookup raises, the
\* input is returned as it is.
C24_Filter ==
  svc.calls > 0 /\ svc.op = "filter" =>
    IF svc.settings_dict.raised
    THEN svc.ret = svc.user_ids
    ELSE /\ svc.ret = SelectSeq(svc.user_ids,
                                LAMBDA u : ~HasRecord(u) \/ Setting(u) = TRUE)
         /\ \A n \in 1..Len(svc.ret) :
              ~(HasRecord(svc.ret[n]) /\ Setting(svc.ret[n]) = FALSE)

\* Of three users asked about, one has the type disabled and one has no
\* record: the other two entries come back, in their order.
C24_Witness ==
  /\ svc.calls > 0 /\ svc.op = "filter"
  /\ svc.user_ids = <<"u1", "u2", "u1">>
  /\ ~svc.settings_dict.raised
  /\ HasRecord("u1") /\ Setting("u1") = FALSE
  /\ ~HasRecord("u2")
  /\ svc.ret = <<"u2">>

\* ------------------------------------------------------------ FriendService
FriendStep ==
  svc'.calls = svc.calls + 1 /\ svc'.op = "send_friend_request_notification"
Written == store'[queue_name] \ store[queue_name]
NothingEnqueued == store' = store /\ svc'.enqueue_calls = 0

HasIds(f) == f.id # None /\ f.user_id # None /\ f.friend_id # None
\* A friendship without a status counts as pending (line 63).
IsPending(f) == "status" \notin DOMAIN f \/ f.status = "pending"

\* What Supabase holds about the sender and the recipient of f.
HasProfile(f) == supabase.profiles[f.user_id] # NoRecord
AllowsRequests(f) ==
  RowOf(f.friend_id) = NoRecord \/ RowOf(f.friend_id).friend_requests
HasDevice(f) == TokensOf(f.friend_id) # <<>>

\* What the lookups of the call returned about them.
SettingsSeen(f) == svc'.settings_dict.ret
AllowedAsSeen(f) ==
  f.friend_id \notin DOMAIN SettingsSeen(f)
    \/ SettingsSeen(f)[f.friend_id].friend_requests

\* The call never raises and enqueues at most one notification.
AtMostOne ==
  /\ svc'.ret \in {"true", "false"}
  /\ svc'.enqueue_calls <= 1
  /\ Cardinality(Written) <= svc'.enqueue_calls
  /\ store'[DeadLetterQueue] = store[DeadLetterQueue]
  /\ \A m \in Written : m.payload.obj.recipients = svc'.push_tokens

EntryInserted ==
  /\ svc.calls > 0 /\ svc.op = "entry_webhook"
  /\ svc.arg.table = "entries" /\ svc.arg.type = "INSERT"
  /\ svc.arg.record # NoRecord /\ DOMAIN svc.arg.record # {}

\* C26: on an INSERT on entries that carries a record, ingest_entry and
\* enqueue_entry_notification are both called, whatever the other one does
\* (returns True or False, or raises), and the handler answers 200 with a
\* status, each of the two reported on its own; it never answers with an
\* HTTP error.
C26_Independent ==
  EntryInserted =>
    /\ svc.ingestion_calls = 1
    /\ svc.notification_calls = 1
    /\ svc.response.http = 200
    /\ svc.response.status \in {"success", "partial_success", "partial_failure"}
    /\ svc.response.ingestion = "success" <=> svc.ingested = "true"
    /\ svc.response.notification = "success" <=> svc.notifyOk

\* The ingestion raised; the notification was enqueued all the same and
\* the handler answered 200.
C26_Witness ==
  /\ EntryInserted
  /\ svc.ingested = "raised"
  /\ svc.enqueue_calls = 1
  /\ \E m \in store[MainQueue] : m.payload.obj.title = "New Entry Shared"
  /\ svc.response.http = 200
  /\ svc.response.status = "partial_success"

\* C29 (as claimed): process_queue waits for every coroutine of its batch:
\* once the call has returned, no coroutine of the batch takes a step any
\* more (no gateway request, no delete, no DLQ write, no stats update), also
\* when one of the coroutines raised.
C29_WaitsForAll ==
  [][\A r \in Runs : Returned(r) =>
       /\ \A i \in TasksOf(r) : tasks'[i] = tasks[i]
       /\ run'[r].stats = run[r].stats]_vars

\* What C30 looks at: the coroutines inside the block of line 305 (a
\* request in flight or a backoff sleep), and those that are over.
Holding == {i \in TaskIds : tasks[i].pc \in {"inflight", "sleeping"}}
Over(i) == tasks[i].pc \in {"done", "raised", "cancelled"}

\* C30: a coroutine takes a permit once, before its first gateway request,
\* keeps it through every request and backoff sleep of its message, and
\* gives it back exactly once when its send is over, whatever the outcome
\* (delivered, failed, cancelled); the free permits and the permits held
\* always add up to `concurrency`, so that with no send in progress the
\* pool holds `concurrency` free permits.
C30_PermitAccounting ==
  /\ \A i \in TaskIds :
       /\ tasks[i].acquires <= 1
       /\ tasks[i].releases <= tasks[i].acquires
       /\ tasks[i].requests > 0 => tasks[i].acquires = 1
       /\ i \in Holding => tasks[i].acquires = 1 /\ tasks[i].releases = 0
       /\ tasks[i].pc \in {"new", "waiting"} => tasks[i].acquires = 0
       /\ Over(i) => tasks[i].releases = tasks[i].acquires
  /\ sem + Cardinality(Holding) = concurrency
  /\ Holding = {} => sem = concurrency

\* C30 witness: a coroutine of a batch that retried (a request, a backoff
\* sleep, another request) under one permit has given it back, one
\* coroutine was cancelled while it held a permit, and the pool is full
\* again.
C30_Witness ==
  /\ \E i \in TaskIds :
       /\ tasks[i].pc = "done" /\ tasks[i].sleeps > 0 /\ tasks[i].requests > 1
       /\ tasks[i].acquires = 1 /\ tasks[i].releases = 1
  /\ \E i \in TaskIds :
       /\ tasks[i].pc = "cancelled"
       /\ tasks[i].acquires = 1 /\ tasks[i].releases = 1
  /\ Holding = {}
  /\ sem = concurrency

\* What C31 looks at: task i is a coroutine of a batch whose payload is a
\* job that is sent (it decodes to a dict with title, body and recipients).
WellFormed(i) ==
  /\ i \in TaskIds
  /\ tasks[i].caller \in Runs
  /\ LET d == DecodeMessage(tasks[i].message)
     IN  ~d.raised /\ d.isdict /\ ~InvalidFormat(d.obj)
Attempted(i) == i \in TaskIds /\ tasks[i].acquires = 1 /\ tasks[i].requests > 0

\* C31: with fewer permits than messages, and every gateway request
\* answered, every well-formed message of a batch gets a permit and has a
\* gateway request made for it (a coroutine that waits for a permit stays
\* waiting until it gets one), and every process_queue call that read a
\* batch returns.
C31_Progress ==
  /\ \A i \in 1..MaxMsgs : WellFormed(i) ~> Attempted(i)
  /\ [][\A i \in TaskIds : tasks[i].pc = "waiting" =>
                              tasks'[i].pc \in {"waiting", "inflight"}]_vars
  /\ \A r \in Runs : (run[r].pc = "gather") ~> Returned(r)

\* C31 witness: a batch of two well-formed messages over one permit: the
\* second waited for the permit, both were attempted, the call returned.
C31_Witness ==
  \E r \in Runs :
    /\ Returned(r)
    /\ concurrency = 1
    /\ Cardinality(TasksOf(r)) = 2
    /\ \A i \in TasksOf(r) : WellFormed(i) /\ Attempted(i) /\ tasks[i].pc = "done"

\* What C32 looks at: the gateway requests made for task i so far, and the
\* answer that sent it to sleep for the n-th time.
Requests(i) == tasks[i].requests
SleptAfter(i, n) == tasks[i].sleep_calls[n].after

\* C32: the attempts of one message follow each other: a coroutine has at
\* most one request in flight (no request is made for it while one is
\* pending), its first request is made on taking the permit, and every
\* later request is made when a backoff sleep ends, a sleep that followed a
\* rate-limit answer to the request before; the requests made are one more
\* than the sleeps ended.
C32_Sequential ==
  [][\A i \in TaskIds :
       /\ Requests(i)' \in {Requests(i), Requests(i) + 1}
       /\ tasks[i].pc = "inflight" => Requests(i)' = Requests(i)
       /\ Requests(i)' = Requests(i) + 1 =>
            \/ /\ tasks[i].pc \in {"new", "waiting"}
               /\ Requests(i) = 0
               /\ tasks[i].sleeps = 0
            \/ /\ tasks[i].pc = "sleeping"
               /\ Requests(i) = tasks[i].sleeps
               /\ Len(tasks[i].sleep_calls) = tasks[i].sleeps
               /\ RateLimited(SleptAfter(i, tasks[i].sleeps))
               /\ tasks'[i].retry = tasks[i].retry + 1
       /\ tasks'[i].pc = "inflight" => Requests(i)' = tasks'[i].sleeps + 1]_vars

\* C32 witness: a coroutine sleeps after a rate limit, holding its permit,
\* while the request of another message of the batch is in flight; the
\* sleeper has made one request and the other coroutine goes on.
C32_Witness ==
  \E i \in TaskIds, j \in TaskIds :
    /\ i # j
    /\ tasks[i].caller = tasks[j].caller
    /\ tasks[i].pc = "sleeping" /\ Requests(i) = 1
    /\ tasks[j].pc = "inflight"
    /\ ENABLED GatewayAnswers(j)

\* What C33 looks at: the queue calls made for the message of task i, and
\* a failed send that is escalated.
Calls(i) == tasks[i].calls
Escalated(i) == FailedSend(i) /\ CountOf(i) + 1 <= DlqLimit

\* C33 (as claimed): for an escalated message the delete from the source
\* queue is made first and the DLQ write second, both are attempted, and
\* when the DLQ write fails after the delete moved_to_dlq is not
\* incremented while failed is.
C33_BothAttempted ==
  \A i \in TaskIds : Escalated(i) =>
    /\ Calls(i) = <<QueueCall("delete", SourceOf(i)),
                    QueueCall("send", DeadLetterQueue)>>
    /\ tasks[i].outcome = "lost" =>
         StatsOf(i).moved_to_dlq = 0 /\ StatsOf(i).failed = 1

\* C33 (amended): for an escalated message the delete from the source
\* queue is made first; the DLQ write is made second, and only when the
\* delete did not raise.  When the delete raises nothing else is tried: the
\* message stays in the source queue, nothing is written to the DLQ,
\* moved_to_dlq is not incremented and failed is.  When the DLQ write
\* raises after the delete, no further call is made for the message: it is
\* in neither queue, moved_to_dlq is not incremented and failed is.
C33_Escalation ==
  \A i \in TaskIds : Escalated(i) =>
    /\ tasks[i].outcome \in {"error", "lost", "moved"}
    /\ Len(Calls(i)) \in {1, 2}
    /\ Calls(i)[1] = QueueCall("delete", SourceOf(i))
    /\ Len(Calls(i)) = 2 => Calls(i)[2] = QueueCall("send", DeadLetterQueue)
    /\ Len(Calls(i)) = 1 <=> tasks[i].outcome = "error"
    /\ StatsOf(i).failed = 1
    /\ StatsOf(i).discarded = 0
    /\ StatsOf(i).moved_to_dlq = IF tasks[i].outcome = "moved" THEN 1 ELSE 0
    /\ tasks[i].outcome = "error" =>
         tasks[i].msg_id \in Ids(SourceOf(i)) /\ store[DeadLetterQueue] = {}
    /\ tasks[i].outcome = "lost" =>
         tasks[i].msg_id \notin Ids(SourceOf(i)) /\ store[DeadLetterQueue] = {}
    /\ tasks[i].outcome = "moved" =>
         tasks[i].msg_id \notin Ids(SourceOf(i)) /\ store[DeadLetterQueue] # {}

\* C33 witness: the DLQ write of an escalated message failed after the
\* delete: the message is in neither queue and is counted as failed only.
C33_Witness ==
  \E i \in TaskIds :
    /\ Escalated(i)
    /\ tasks[i].outcome = "lost"
    /\ Len(Calls(i)) = 2
    /\ tasks[i].msg_id \notin Ids(MainQueue)
    /\ store[DeadLetterQueue] = {}
    /\ StatsOf(i).moved_to_dlq = 0 /\ StatsOf(i).failed = 1

\* What C34 looks at: the failure_count of a message waiting in a queue,
\* the processings of the job that ended with its delete made (the job
\* moved on, or left the queues), and the moves before processing i.
CountIn(m) == Get(DecodeMessage(m.payload).obj, "failure_count", 0)
EveryDeliveryFails == \A i \in TaskIds : tasks[i].result # "true"
Advanced == {i \in TaskIds : tasks[i].outcome \in {"moved", "lost", "discarded"}}
MovedBefore(i) == {j \in TaskIds : j < i /\ tasks[j].outcome = "moved"}
WithinLimit ==
  /\ \A m \in store[MainQueue] : CountIn(m) <= DlqLimit
  /\ \A m \in store[DeadLetterQueue] : 1 <= CountIn(m) /\ CountIn(m) <= DlqLimit

C35_ProcessedIsRead ==
  \A r \in Runs : Returned(r) =>
    /\ Cardinality(TasksOf(r)) <= batch_size
    /\ StatsReturned(r).processed = Cardinality(TasksOf(r))

\* C36 (as claimed): however process_queue and process_dlq interleave on
\* one service, a process_queue call made for itself (the scheduled tick)
\* reads the main queue and a process_dlq reads the DLQ, and every delete
\* made for a message targets the queue its batch was read from.
C36_OneQueuePerBatch ==
  /\ \A r \in Runs :
       /\ run[r].call = "process_queue" => run[r].src = MainQueue
       /\ run[r].call = "process_dlq" => run[r].src = DeadLetterQueue
  /\ \A i \in TaskIds : \A n \in 1..Len(Calls(i)) :
       Calls(i)[n].op = "delete" => Calls(i)[n].queue = SourceOf(i)

\* What C37 looks at: message m of queue q is taken off its queue by the
\* step, and the step is the end of the coroutine that read it, with one
\* of the outcomes that dispose of a message (for an escalation the job
\* is written to the DLQ in the same step).
Leaves(q, m) == m \in store[q] /\ m \notin store'[q]
Disposes(i, q, m) ==
  /\ tasks[i].msg_id = m.id
  /\ tasks[i].message = m.payload
  /\ SourceOf(i) = q
  /\ tasks[i].pc \notin {"done", "raised", "cancelled"}
  /\ tasks'[i].pc = "done"
  /\ tasks'[i].outcome \in {"succeeded", "discarded", "invalid", "lost", "moved"}
  /\ tasks'[i].outcome = "succeeded" <=> tasks'[i].result = "true"
  /\ tasks'[i].outcome = "discarded" =>
       tasks'[i].result = "false" /\ CountOf(i) + 1 > DlqLimit
  /\ tasks'[i].outcome = "invalid" => InvalidFormat(JobOf(i))
  /\ tasks'[i].outcome = "moved" =>
       \E w \in store'[DeadLetterQueue] \ store[DeadLetterQueue] :
         DecodeMessage(w.payload).obj = SetFailureCount(JobOf(i), CountOf(i) + 1)

\* C37 (as claimed): a job leaves the queues only after its successful
\* send, after a failed send with failure_count + 1 > dlq_limit, for a
\* malformed payload, or when the DLQ write failed after the delete from
\* the source queue; in every other case it is still in the main queue or
\* in the DLQ (an escalated job is on the DLQ when it leaves its queue).
C37_NoSilentLoss ==
  [][\A q \in QueueNames : \A m \in store[q] :
       Leaves(q, m) => \E i \in TaskIds : Disposes(i, q, m)]_vars

\* What C38 looks at: the copies of the job in the queues, and the
\* processings of it whose send failed.
Copies == store[MainQueue] \cup store[DeadLetterQueue]
FailedAttempts == {i \in TaskIds : tasks[i].result = "false"}

\* C38 (as claimed): when a message is processed by two overlapping calls
\* (its visibility timeout ran out), at most one copy of the job exists
\* across the main queue and the DLQ, and its failure_count has grown by at
\* most one per processing whose send failed.
C38_OneCopy ==
  /\ Cardinality(store[MainQueue]) + Cardinality(store[DeadLetterQueue]) <= 1
  /\ \A m \in Copies : CountIn(m) <= Cardinality(FailedAttempts)

\* What C39 looks at: the recipients of the job of task i.
Recipients(i) == JobOf(i).recipients

\* C39 (as claimed): a send over the REST API returns True only when the
\* answer holds one ticket per recipient, each of them an object with
\* status ok; a 2xx answer with no tickets, with fewer tickets than
\* recipients, or with tickets that are no objects does not make it
\* return True.
C39_FullBatch ==
  \A i \in Sends :
    (Finished(i) /\ tasks[i].resp.via = "rest" /\ tasks[i].result = "true") =>
      LET tickets == tasks[i].resp.tickets
      IN  /\ Len(tickets) = Len(Recipients(i))
          /\ \A n \in 1..Len(tickets) :
               tickets[n].isdict /\ tickets[n].status = "ok"

\* C40 (as claimed): the answer to an INSERT on entries reports the
\* notification as "success" only when enqueue_entry_notification returned
\* True, and as "failed" when it returned False or raised.
C40_ReportsEnqueue ==
  EntryInserted =>
    (svc.response.notification = "success"
       <=> (svc.notifyOk /\ svc.notification.ret = "true"))

====
